---------------------------- MODULE Spec2Model ----------------------------
(***************************************************************************)
(* A model of the OCR-text-to-records pipeline of the electoral roll       *)
(* converter (src/script.py, src/script_1.py).                             *)
(*                                                                         *)
(* Text is a sequence of one-character strings.  The regular expressions   *)
(* of the program are lists of nodes that ReM matches by backtracking, in  *)
(* the order Python's re module tries the alternatives.                    *)
(* Two characters of the source patterns are not ASCII and are written     *)
(* here with stand-ins: "~" is the en dash and "#" is the em dash.         *)
(***************************************************************************)
EXTENDS Integers, Sequences, FiniteSets, TLC

(***************************************************************************)
(* Characters.                                                             *)
(***************************************************************************)
S(s) == [i \in 1..Len(s) |-> SubSeq(s, i, i)]

Range(q) == {q[i] : i \in 1..Len(q)}

AlphaU == S("ABCDEFGHIJKLMNOPQRSTUVWXYZ")
AlphaL == S("abcdefghijklmnopqrstuvwxyz")
Digs == S("0123456789")

UpperSet == Range(AlphaU)
LowerSet == Range(AlphaL)
DigitSet == Range(Digs)
\* \w of Python's re, on the characters of the model
WordSet == UpperSet \cup LowerSet \cup DigitSet \cup {"_"}
\* \s of Python's re, on the characters of the model
SpaceSet == {" ", "\n", "\t"}

ToLower == [c \in UpperSet |-> AlphaL[CHOOSE j \in 1..Len(AlphaU) : AlphaU[j] = c]]
ToUpper == [c \in LowerSet |-> AlphaU[CHOOSE j \in 1..Len(AlphaL) : AlphaL[j] = c]]

Lo(c) == IF c \in UpperSet THEN ToLower[c] ELSE c
Up(c) == IF c \in LowerSet THEN ToUpper[c] ELSE c

\* str.lower()
lower(t) == [i \in 1..Len(t) |-> Lo(t[i])]

\* str.strip()
strip(t) ==
    LET keep == {i \in 1..Len(t) : t[i] \notin SpaceSet}
    IN  IF keep = {} THEN <<>>
        ELSE SubSeq(t, CHOOSE i \in keep : \A j \in keep : i <= j,
                       CHOOSE i \in keep : \A j \in keep : i >= j)

\* t[a:b] of Python for 0 <= a, b: characters a+1 .. min(b, len)
Slice(t, a, b) == SubSeq(t, a + 1, IF b < Len(t) THEN b ELSE Len(t))

\* "needle in hay" of Python
Contains(hay, needle) ==
    \E i \in 1..(Len(hay) + 1) :
        /\ i + Len(needle) - 1 <= Len(hay)
        /\ SubSeq(hay, i, i + Len(needle) - 1) = needle

RECURSIVE NatToStr(_)
\* str(n) for n >= 0
NatToStr(n) == IF n < 10 THEN <<Digs[n + 1]>>
               ELSE NatToStr(n \div 10) \o <<Digs[(n % 10) + 1]>>

DigitVal(c) == (CHOOSE j \in 1..Len(Digs) : Digs[j] = c) - 1

RECURSIVE StrToNat(_)
\* int(s) for a string of digits
StrToNat(s) == IF Len(s) = 0 THEN 0
               ELSE StrToNat(SubSeq(s, 1, Len(s) - 1)) * 10 + DigitVal(s[Len(s)])

(***************************************************************************)
(* Regular expressions.  A pattern is a sequence of nodes:                 *)
(*   set (one character of a class), any (.), bol (^), eol ($), wb (\b),   *)
(*   open/close (a capture group's parentheses), alt (a | b | ...),        *)
(*   rep (a{lo,hi}, greedy or lazy; hi = -1 is unbounded).                 *)
(* Each pattern of the program is written with the constructors below,     *)
(* next to the pattern string of the source.                               *)
(***************************************************************************)
\* a literal string
Lit(s) == [i \in 1..Len(s) |-> [k |-> "set", s |-> {SubSeq(s, i, i)}]]
\* one character of a class [...]
Cls(set) == <<[k |-> "set", s |-> set]>>
\* .
AnyChar == <<[k |-> "any"]>>
\* ^  $  \b
Bol == <<[k |-> "bol"]>>
Eol == <<[k |-> "eol"]>>
Wb == <<[k |-> "wb"]>>
\* a{lo,hi} and a{lo,hi}?
Rep(a, lo, hi, lazy) == <<[k |-> "rep", a |-> a, lo |-> lo, hi |-> hi, lazy |-> lazy]>>
\* a*  a+  a?  a*?  a+?
Star(a) == Rep(a, 0, -1, FALSE)
Plus(a) == Rep(a, 1, -1, FALSE)
Opt(a) == Rep(a, 0, 1, FALSE)
StarLazy(a) == Rep(a, 0, -1, TRUE)
PlusLazy(a) == Rep(a, 1, -1, TRUE)
\* (a), the n-th capture group
Grp(n, a) == <<[k |-> "open", n |-> n]>> \o a \o <<[k |-> "close", n |-> n]>>
\* (?:a|b|...)
Alt(alts) == <<[k |-> "alt", a |-> alts]>>
\* a compiled pattern with ng capture groups
Pat(ng, q) == [q |-> q, ng |-> ng]

\* \s  \d
Sp == Cls(SpaceSet)
Dg == Cls(DigitSet)

\* r'\b' + re.escape(w) + r'\b': re.escape puts a backslash before the special
\* characters of w, which makes each character of w a literal
WholeWord(w) == Pat(0, Wb \o Lit(w) \o Wb)

(***************************************************************************)
(* The matcher.  Flags are a set of letters: "I" re.IGNORECASE,            *)
(* "S" re.DOTALL, "M" re.MULTILINE.                                        *)
(***************************************************************************)
ReFail == [ok |-> FALSE, s |-> 0, e |-> 0, g |-> <<>>]

InClass(c, s, fl) == c \in s \/ ("I" \in fl /\ (Lo(c) \in s \/ Up(c) \in s))

IsWordAt(t, i) == i >= 1 /\ i <= Len(t) /\ t[i] \in WordSet

\* whether the one-character node h (set or any) matches the character c
NodeMatches(h, c, fl) == IF h.k = "set" THEN InClass(c, h.s, fl)
                         ELSE "S" \in fl \/ c # "\n"

IsCharNode(h) == h.k \in {"set", "any"}

\* the least element of a non-empty set of integers
Least(ns) == CHOOSE n \in ns : \A n2 \in ns : n <= n2

\* the number of one-character nodes that rs starts with
CharRun(rs) == Least({j \in 1..(Len(rs) + 1) : j = Len(rs) + 1 \/ ~IsCharNode(rs[j])}) - 1

\* how many characters from t[i] on the one-character node h matches in a row
RunLength(h, t, i, fl) ==
    Least({j \in i..(Len(t) + 1) : j = Len(t) + 1 \/ ~NodeMatches(h, t[j], fl)}) - i

\* of the tries <<n, result>>, the successful one with the least n (or the greatest)
FirstOk(tries, least) ==
    LET ok == {p \in tries : p[2].ok}
    IN  IF ok = {} THEN ReFail
        ELSE (CHOOSE p \in ok : \A q \in ok : IF least THEN p[1] <= q[1] ELSE p[1] >= q[1])[2]

\* the counts a repetition h of a one-character node may take at t[i..]
RepCounts(h, run) == h.lo..(IF h.hi # -1 /\ h.hi < run THEN h.hi ELSE run)

\* the repetition h, one round used
OneLess(h) == [h EXCEPT !.lo = IF @ > 0 THEN @ - 1 ELSE 0,
                        !.hi = IF @ = -1 THEN -1 ELSE @ - 1]

RECURSIVE ReM(_, _, _, _, _), ReRound(_, _, _, _, _, _, _)
\* the first way, in backtracking order, to match the nodes rs at t[i..]:
\* the end of the match and the groups' spans, or ReFail.  A run of
\* one-character nodes is matched in one step; a repetition of a one-character
\* node tries its counts from the longest down (greedy) or the shortest up (lazy).
ReM(rs, t, i, g, fl) ==
    IF Len(rs) = 0 THEN [ok |-> TRUE, s |-> 0, e |-> i, g |-> g]
    ELSE
    CASE IsCharNode(rs[1]) ->
           IF /\ i + CharRun(rs) - 1 <= Len(t)
              /\ \A j \in 1..CharRun(rs) : NodeMatches(rs[j], t[i + j - 1], fl)
           THEN ReM(SubSeq(rs, CharRun(rs) + 1, Len(rs)), t, i + CharRun(rs), g, fl)
           ELSE ReFail
      [] rs[1].k = "bol" ->
           IF i = 1 \/ ("M" \in fl /\ t[i - 1] = "\n") THEN ReM(Tail(rs), t, i, g, fl) ELSE ReFail
      [] rs[1].k = "eol" ->
           IF \/ i = Len(t) + 1
              \/ (i = Len(t) /\ t[i] = "\n")
              \/ ("M" \in fl /\ i <= Len(t) /\ t[i] = "\n")
           THEN ReM(Tail(rs), t, i, g, fl) ELSE ReFail
      [] rs[1].k = "wb" ->
           IF IsWordAt(t, i - 1) # IsWordAt(t, i) THEN ReM(Tail(rs), t, i, g, fl) ELSE ReFail
      [] rs[1].k = "open" -> ReM(Tail(rs), t, i, [g EXCEPT ![rs[1].n] = <<i, 0>>], fl)
      [] rs[1].k = "close" -> ReM(Tail(rs), t, i, [g EXCEPT ![rs[1].n] = <<@[1], i>>], fl)
      [] rs[1].k = "alt" ->
           FirstOk({<<j, ReM(rs[1].a[j] \o Tail(rs), t, i, g, fl)>> : j \in 1..Len(rs[1].a)},
                   TRUE)
      [] rs[1].k = "rep" /\ Len(rs[1].a) = 1 /\ IsCharNode(rs[1].a[1]) ->
           FirstOk({<<n, ReM(Tail(rs), t, i + n, g, fl)>> :
                       n \in RepCounts(rs[1], RunLength(rs[1].a[1], t, i, fl))},
                   rs[1].lazy)
      [] OTHER ->  \* a repetition of a longer body
           IF rs[1].lo > 0 THEN ReM(rs[1].a \o <<OneLess(rs[1])>> \o Tail(rs), t, i, g, fl)
           ELSE IF rs[1].hi = 0 THEN ReM(Tail(rs), t, i, g, fl)
           ELSE ReRound(rs, t, i, g, fl,
                        ReM(rs[1].a \o <<OneLess(rs[1])>> \o Tail(rs), t, i, g, fl),
                        ReM(Tail(rs), t, i, g, fl))

\* one more round of the repetition rs[1] (more) or none (stop): a greedy
\* repetition prefers more, a lazy one prefers stop
ReRound(rs, t, i, g, fl, more, stop) ==
    IF rs[1].lazy THEN (IF stop.ok THEN stop ELSE more)
    ELSE (IF more.ok THEN more ELSE stop)

\* the match of re at exactly t[i..], with its start s
ReMatchAt(re, t, i, fl) ==
    [ReM(re.q, t, i, [n \in 1..re.ng |-> <<0, 0>>], fl) EXCEPT !.s = i]

\* pattern.search(t, pos): the leftmost match starting at or after position from
ReSearchFrom(re, t, from, fl) ==
    FirstOk({<<i, ReMatchAt(re, t, i, fl)>> : i \in from..(Len(t) + 1)}, TRUE)

\* re.search(pattern, t, flags)
re_search(re, t, fl) == ReSearchFrom(re, t, 1, fl)

\* match.group(n)
group(t, m, n) == SubSeq(t, m.g[n][1], m.g[n][2] - 1)

\* match.group()
group0(t, m) == SubSeq(t, m.s, m.e - 1)

RECURSIVE ReSubFrom(_, _, _, _, _), ReSubStep(_, _, _, _, _, _)
ReSubFrom(re, repl, t, from, fl) ==
    ReSubStep(re, repl, t, from, fl, ReSearchFrom(re, t, from, fl))

\* the text from position from on, given the next match m (if any)
ReSubStep(re, repl, t, from, fl, m) ==
    IF ~m.ok THEN SubSeq(t, from, Len(t))
    ELSE SubSeq(t, from, m.s - 1) \o repl \o ReSubFrom(re, repl, t, m.e, fl)

\* re.sub(pattern, repl, t, flags) for a pattern that matches no empty string
re_sub(re, repl, t, fl) == ReSubFrom(re, repl, t, 1, fl)

RECURSIVE ReFindFrom(_, _, _, _), ReFindStep(_, _, _, _)
ReFindFrom(re, t, from, fl) == ReFindStep(re, t, fl, ReSearchFrom(re, t, from, fl))

ReFindStep(re, t, fl, m) == IF ~m.ok THEN <<>> ELSE <<m>> \o ReFindFrom(re, t, m.e, fl)

\* list(re.finditer(pattern, t)) for a pattern that matches no empty string
re_finditer(re, t, fl) == ReFindFrom(re, t, 1, fl)

RECURSIVE ReSplitFrom(_, _, _, _), ReSplitStep(_, _, _, _, _)
ReSplitFrom(re, t, from, fl) == ReSplitStep(re, t, from, fl, ReSearchFrom(re, t, from, fl))

ReSplitStep(re, t, from, fl, m) ==
    IF ~m.ok THEN <<SubSeq(t, from, Len(t))>>
    ELSE <<SubSeq(t, from, m.s - 1)>>
         \o [n \in 1..re.ng |-> group(t, m, n)]
         \o ReSplitFrom(re, t, m.e, fl)

\* re.split(pattern, t, flags): the pieces between matches, each match's groups between them
re_split(re, t, fl) == ReSplitFrom(re, t, 1, fl)

(***************************************************************************)
(* Text Normalizer: clean_ocr_text_advanced.                               *)
(***************************************************************************)
\* the correction table, in the order of the dictionary
ocr_corrections ==
    << <<"Nanre", "Name">>, <<"Narne", "Name">>, <<"Natne", "Name">>, <<"Nanie", "Name">>,
       <<"Narme", "Name">>, <<"Namre", "Name">>, <<"Nanne", "Name">>,
       <<"Fathers", "Father">>, <<"Fathars", "Father">>, <<"Fathar", "Father">>,
       <<"Husbands", "Husband">>, <<"Hurband", "Husband">>, <<"Husbamd", "Husband">>,
       <<"Hursband", "Husband">>, <<"Husbanc", "Husband">>,
       <<"Aqe", "Age">>, <<"Agg", "Age">>, <<"Agge", "Age">>, <<"Agae", "Age">>,
       <<"Gendsr", "Gender">>, <<"Gendet", "Gender">>, <<"Gencer", "Gender">>,
       <<"Malg", "Male">>, <<"Malle", "Male">>, <<"Maie", "Male">>,
       <<"Fernale", "Female">>, <<"Femala", "Female">>, <<"Femsle", "Female">>,
       <<"Femaie", "Female">>, <<"Fenale", "Female">>,
       <<"Houre", "House">>, <<"Housr", "House">>, <<"Hourse", "House">>,
       <<"Numbsr", "Number">>, <<"Numbef", "Number">>, <<"Numbar", "Number">>,
       <<"|", "I">>, <<"rn", "m">>, <<"0", "O">>,
       <<"cl", "d">>, <<"ii", "ll">>, <<"vv", "w">> >>

\* r'\b' + re.escape(wrong) + r'\b' for each entry of the table
CorrectionRe == [k \in 1..Len(ocr_corrections) |-> WholeWord(ocr_corrections[k][1])]

RECURSIVE ApplyCorrections(_, _)
\* the loop over the table from entry k on: each entry rewrites the result of the one
\* before (an empty text has nothing left to rewrite)
ApplyCorrections(k, text) ==
    IF k > Len(ocr_corrections) \/ Len(text) = 0 THEN text
    ELSE ApplyCorrections(k + 1,
            re_sub(CorrectionRe[k], S(ocr_corrections[k][2]), text, {"I"}))

\* r'\s+'
ReSpaces == Pat(0, Plus(Sp))
\* r'\n\s*\n'
ReBlankLines == Pat(0, Lit("\n") \o Star(Sp) \o Lit("\n"))
\* r'\s*:\s*'
ReColon == Pat(0, Star(Sp) \o Lit(":") \o Star(Sp))
\* r'\s*,\s*'
ReComma == Pat(0, Star(Sp) \o Lit(",") \o Star(Sp))

clean_ocr_text_advanced(text) ==
    IF Len(text) = 0 THEN <<>>
    ELSE LET corrected == ApplyCorrections(1, text)
             spaced == re_sub(ReSpaces, S(" "), corrected, {})
             lined == re_sub(ReBlankLines, S("\n"), spaced, {})
             stripped == strip(lined)
             colons == re_sub(ReColon, S(": "), stripped, {})
         IN  re_sub(ReComma, S(", "), colons, {})

(***************************************************************************)
(* OCR Configuration Selector: extract_text_from_image_multi_config.       *)
(* A score is a fraction <<numerator, denominator>>: the mean of the       *)
(* positive token confidences, or the length of the text.                  *)
(***************************************************************************)
ocr_configs ==
    <<"--oem 3 --psm 6", "--oem 3 --psm 4", "--oem 3 --psm 8", "--oem 3 --psm 7",
      "--oem 3 --psm 13">>

RECURSIVE Sum(_)
Sum(q) == IF Len(q) = 0 THEN 0 ELSE Head(q) + Sum(Tail(q))

\* [int(conf) for conf in data['conf'] if int(conf) > 0]
PositiveConfidences(conf) == SelectSeq(conf, LAMBDA c : c > 0)

RECURSIVE Gcd(_, _)
Gcd(a, b) == IF b = 0 THEN a ELSE Gcd(b, a % b)

\* the quotient a / b as a fraction in lowest terms
Quotient(a, b) == <<a \div Gcd(a, b), b \div Gcd(a, b)>>

\* sum(confidences) / len(confidences) if confidences else 0
MeanOrZero(confidences) ==
    IF Len(confidences) > 0 THEN Quotient(Sum(confidences), Len(confidences)) ELSE <<0, 1>>

\* the score of one attempt: data is what image_to_data gave, [ok |-> FALSE] when it
\* raised and the length of the text stands in
avg_confidence(text, data) ==
    IF data.ok THEN MeanOrZero(PositiveConfidences(data.conf)) ELSE <<Len(text), 1>>

\* a > b for fractions with positive denominators
ScoreGreater(a, b) == a[1] * b[2] > b[1] * a[2]

\* no call of image_to_data: the value of the history before the first attempt and
\* after an attempt in which image_to_string raised
NoData == [ok |-> FALSE, conf |-> <<>>]

\* best_text = "", best_confidence = 0
NoBest == [text |-> <<>>, confidence |-> <<0, 1>>]

\* if avg_confidence > best_confidence: best_confidence, best_text = avg_confidence, text
KeepBest(best, text, score) ==
    IF ScoreGreater(score, best.confidence) THEN [text |-> text, confidence |-> score]
    ELSE best

(***************************************************************************)
(* Metadata Extractor: extract_metadata_flexible.  A mapping (dict) is a   *)
(* function from its keys to texts; <<>> is the empty mapping.             *)
(***************************************************************************)
\* [-~#]: hyphen, en dash, em dash
Dash == Cls({"-", "~", "#"})
\* [A-Z]
Upper == Cls(UpperSet)
\* [A-Z\s]
UpperSp == Cls(UpperSet \cup SpaceSet)
\* [A-Z\s\(\)]
UpperSpParen == Cls(UpperSet \cup SpaceSet \cup {"(", ")"})
\* (?:Part|GENERAL|$)
PartGeneralEnd == Alt(<<Lit("Part"), Lit("GENERAL"), Eol>>)

constituency_patterns ==
    << \* r'Assembly\s+Constituency.*?(\d+).*?[-~#]\s*([A-Z][A-Z\s\(\)]+?)(?:Part|GENERAL|$)'
       Pat(2, Lit("Assembly") \o Plus(Sp) \o Lit("Constituency") \o StarLazy(AnyChar)
              \o Grp(1, Plus(Dg)) \o StarLazy(AnyChar) \o Dash \o Star(Sp)
              \o Grp(2, Upper \o PlusLazy(UpperSpParen)) \o PartGeneralEnd),
       \* r'Constituency.*?(\d+).*?[-~#]\s*([A-Z][A-Z\s\(\)]+?)(?:Part|GENERAL|$)'
       Pat(2, Lit("Constituency") \o StarLazy(AnyChar)
              \o Grp(1, Plus(Dg)) \o StarLazy(AnyChar) \o Dash \o Star(Sp)
              \o Grp(2, Upper \o PlusLazy(UpperSpParen)) \o PartGeneralEnd),
       \* r'(\d{2,3})\s*[-~#]\s*([A-Z][A-Z\s\(\)]{5,}?)(?:Part|GENERAL|$)'
       Pat(2, Grp(1, Rep(Dg, 2, 3, FALSE)) \o Star(Sp) \o Dash \o Star(Sp)
              \o Grp(2, Upper \o Rep(UpperSpParen, 5, -1, TRUE)) \o PartGeneralEnd),
       \* r'(\d+)\s*[-~#]\s*([A-Z\s]{8,}?)(?:\s|$)'
       Pat(2, Grp(1, Plus(Dg)) \o Star(Sp) \o Dash \o Star(Sp)
              \o Grp(2, Rep(UpperSp, 8, -1, TRUE)) \o Alt(<<Sp, Eol>>)) >>

part_patterns ==
    << \* r'Part\s+No\.?\s*:?\s*(\d+)'
       Pat(1, Lit("Part") \o Plus(Sp) \o Lit("No") \o Opt(Lit(".")) \o Star(Sp)
              \o Opt(Lit(":")) \o Star(Sp) \o Grp(1, Plus(Dg))),
       \* r'Part\s+Number\s*:?\s*(\d+)'
       Pat(1, Lit("Part") \o Plus(Sp) \o Lit("Number") \o Star(Sp)
              \o Opt(Lit(":")) \o Star(Sp) \o Grp(1, Plus(Dg))),
       \* r'Part\s*:?\s*(\d+)'
       Pat(1, Lit("Part") \o Star(Sp) \o Opt(Lit(":")) \o Star(Sp) \o Grp(1, Plus(Dg))),
       \* r'(\d+)\s*$'
       Pat(1, Grp(1, Plus(Dg)) \o Star(Sp) \o Eol) >>

parliament_patterns ==
    << \* r'Parliamentary\s+Constituency.*?(\d+).*?[-~#]\s*([A-Z][A-Z\s\(\)]+)'
       Pat(2, Lit("Parliamentary") \o Plus(Sp) \o Lit("Constituency") \o StarLazy(AnyChar)
              \o Grp(1, Plus(Dg)) \o StarLazy(AnyChar) \o Dash \o Star(Sp)
              \o Grp(2, Upper \o Plus(UpperSpParen))),
       \* r'Lok\s+Sabha.*?(\d+).*?[-~#]\s*([A-Z][A-Z\s\(\)]+)'
       Pat(2, Lit("Lok") \o Plus(Sp) \o Lit("Sabha") \o StarLazy(AnyChar)
              \o Grp(1, Plus(Dg)) \o StarLazy(AnyChar) \o Dash \o Star(Sp)
              \o Grp(2, Upper \o Plus(UpperSpParen))) >>

\* the location fields, in the order of the dictionary: <<key, pattern>>
location_patterns ==
    << \* r'District\s*:?\s*([A-Z][A-Z\s]+?)(?:\s*\d|\s*Pin|\s*$)'
       <<"district",
         Pat(1, Lit("District") \o Star(Sp) \o Opt(Lit(":")) \o Star(Sp)
                \o Grp(1, Upper \o PlusLazy(UpperSp))
                \o Alt(<<Star(Sp) \o Dg, Star(Sp) \o Lit("Pin"), Star(Sp) \o Eol>>))>>,
       \* r'Subdivision\s*:?\s*([A-Z][A-Z\s]+?)(?:\s*District|\s*$)'
       <<"subdivision",
         Pat(1, Lit("Subdivision") \o Star(Sp) \o Opt(Lit(":")) \o Star(Sp)
                \o Grp(1, Upper \o PlusLazy(UpperSp))
                \o Alt(<<Star(Sp) \o Lit("District"), Star(Sp) \o Eol>>))>>,
       \* r'Tehsil\s*:?\s*([A-Z][A-Z\s]+?)(?:\s*$)'
       <<"tehsil",
         Pat(1, Lit("Tehsil") \o Star(Sp) \o Opt(Lit(":")) \o Star(Sp)
                \o Grp(1, Upper \o PlusLazy(UpperSp)) \o Star(Sp) \o Eol)>>,
       \* r'Block\s*:?\s*([A-Z][A-Z\s]+?)(?:\s*$)'
       <<"block",
         Pat(1, Lit("Block") \o Star(Sp) \o Opt(Lit(":")) \o Star(Sp)
                \o Grp(1, Upper \o PlusLazy(UpperSp)) \o Star(Sp) \o Eol)>>,
       \* r'Pin\s+code\s*:?\s*(\d{6})'
       <<"pin_code",
         Pat(1, Lit("Pin") \o Plus(Sp) \o Lit("code") \o Star(Sp) \o Opt(Lit(":")) \o Star(Sp)
                \o Grp(1, Rep(Dg, 6, 6, FALSE)))>> >>

RECURSIVE FirstMatch(_, _, _, _), FirstMatchStep(_, _, _, _, _)
\* for pattern in patterns: match = re.search(pattern, text, flags); if match: ...; break
\* gives the match of the first pattern from the k-th on that matches, or ReFail
FirstMatch(patterns, k, text, fl) ==
    IF k > Len(patterns) THEN ReFail
    ELSE FirstMatchStep(patterns, k, text, fl, re_search(patterns[k], text, fl))

\* a cascade in which a later match replaces an earlier one
FirstMatchStep_NoBreak(patterns, k, text, fl, m) ==
    IF FirstMatch(patterns, k + 1, text, fl).ok THEN FirstMatch(patterns, k + 1, text, fl)
    ELSE m

\* the k-th pattern gave m: break on a match, else go on with the next pattern
FirstMatchStep(patterns, k, text, fl, m) ==
    IF m.ok THEN m ELSE FirstMatch(patterns, k + 1, text, fl)

\* metadata[key1] = match.group(1).strip(); metadata[key2] = match.group(2).strip()
TwoFields(m, text, key1, key2) ==
    IF m.ok THEN (key1 :> strip(group(text, m, 1))) @@ (key2 :> strip(group(text, m, 2)))
    ELSE <<>>

\* metadata[key] = match.group(1).strip()
OneField(m, text, key) == IF m.ok THEN key :> strip(group(text, m, 1)) ELSE <<>>

RECURSIVE LocationFields(_, _)
\* for key, pattern in location_patterns.items(), from the k-th entry on
LocationFields(k, text) ==
    IF k > Len(location_patterns) THEN <<>>
    ELSE OneField(re_search(location_patterns[k][2], text, {"I"}), text, location_patterns[k][1])
         @@ LocationFields(k + 1, text)

\* the mapping built from the cleaned text
MetadataOf(text_clean) ==
    TwoFields(FirstMatch(constituency_patterns, 1, text_clean, {"I", "S"}), text_clean,
              "vidhan_sabha_constituency_no", "vidhan_sabha_name")
    @@ OneField(FirstMatch(part_patterns, 1, text_clean, {"I"}), text_clean, "part_no")
    @@ TwoFields(FirstMatch(parliament_patterns, 1, text_clean, {"I", "S"}), text_clean,
                 "lok_sabha_constituency_no", "lok_sabha_name")
    @@ LocationFields(1, text_clean)

extract_metadata_flexible(text) == MetadataOf(clean_ocr_text_advanced(text))

(***************************************************************************)
(* Record Segmenter: find_voter_records_flexible.  Positions of matches    *)
(* count from 1 here and from 0 in the program.                            *)
(***************************************************************************)
id_patterns ==
    << \* r'[A-Z]{2,4}/\d+/\d+/\d+'
       Pat(0, Rep(Upper, 2, 4, FALSE) \o Lit("/") \o Plus(Dg) \o Lit("/") \o Plus(Dg)
              \o Lit("/") \o Plus(Dg)),
       \* r'[A-Z]{3}\d{7,10}'
       Pat(0, Rep(Upper, 3, 3, FALSE) \o Rep(Dg, 7, 10, FALSE)),
       \* r'[A-Z]{2,4}\d{7,10}'
       Pat(0, Rep(Upper, 2, 4, FALSE) \o Rep(Dg, 7, 10, FALSE)) >>

\* block_start = max(0, start - 50)
BlockLead == 50
\* block_end = min(len(text_clean), start + 1000)
BlockReach == 1000
\* len(block_text) > 20
MinIdBlock == 20
\* part[:500]
ChunkLimit == 500
\* len(chunk) > 30, len(combined) > 30
MinChunk == 30
\* parts[i + 2][:800]
ContentLimit == 800

Max(a, b) == IF a >= b THEN a ELSE b
Min(a, b) == IF a <= b THEN a ELSE b

RECURSIVE FindAllIds(_, _)
\* for pattern in id_patterns: for match in re.finditer(pattern, text_clean): append
FindAllIds(k, text_clean) ==
    IF k > Len(id_patterns) THEN <<>>
    ELSE re_finditer(id_patterns[k], text_clean, {}) \o FindAllIds(k + 1, text_clean)

\* the order of the tuples (start, end, text) of the matches of one text
PositionLeq(a, b) == a.s < b.s \/ (a.s = b.s /\ a.e <= b.e)

RECURSIVE InsertSorted(_, _), SortPositions(_)
InsertSorted(m, sorted) ==
    IF Len(sorted) = 0 THEN <<m>>
    ELSE IF PositionLeq(m, Head(sorted)) THEN <<m>> \o sorted
    ELSE <<Head(sorted)>> \o InsertSorted(m, Tail(sorted))

\* id_positions.sort()
SortPositions(q) == IF Len(q) = 0 THEN <<>> ELSE InsertSorted(Head(q), SortPositions(Tail(q)))

\* the block of the i-th identifier: text_clean[block_start:block_end].strip()
IdBlock(text_clean, id_positions, i) ==
    strip(Slice(text_clean,
                Max(0, id_positions[i].s - 1 - BlockLead),
                IF i < Len(id_positions) THEN id_positions[i + 1].s - 1
                ELSE Min(Len(text_clean), id_positions[i].s - 1 + BlockReach)))

\* strategy 1 on the sorted positions: the blocks longer than the minimum
IdBlocksAt(text_clean, id_positions) ==
    SelectSeq([i \in 1..Len(id_positions) |-> IdBlock(text_clean, id_positions, i)],
              LAMBDA block_text : Len(block_text) > MinIdBlock)

IdBlocks(text_clean) == IdBlocksAt(text_clean, SortPositions(FindAllIds(1, text_clean)))

\* r'Name\s*:'
ReNameLabel == Pat(0, Lit("Name") \o Star(Sp) \o Lit(":"))

keywords == <<"age", "gender", "house">>

\* f"Name: {part[:500].strip()}"
NameChunk(part) == S("Name: ") \o strip(Slice(part, 0, ChunkLimit))

\* strategy 2 on the parts of the split: the chunks after each label that are long
\* enough and hold a keyword
NameBlocksOf(name_parts) ==
    SelectSeq([i \in 1..(Len(name_parts) - 1) |-> NameChunk(name_parts[i + 1])],
              LAMBDA chunk : /\ Len(chunk) > MinChunk
                             /\ \E k \in 1..Len(keywords) : Contains(lower(chunk), S(keywords[k])))

NameBlocks(text_clean) == NameBlocksOf(re_split(ReNameLabel, text_clean, {"I"}))

\* r'(\d+)\s+([A-Z]{2,4}[/\d]+|Name\s*:)'
serial_pattern ==
    Pat(2, Grp(1, Plus(Dg)) \o Plus(Sp)
           \o Grp(2, Alt(<<Rep(Upper, 2, 4, FALSE) \o Plus(Cls(DigitSet \cup {"/"})),
                           Lit("Name") \o Star(Sp) \o Lit(":")>>)))

\* f"{serial} {prefix} {content}".strip() for the match whose serial is parts[i]
SerialChunk(parts, i) ==
    strip(parts[i] \o S(" ") \o parts[i + 1] \o S(" ") \o Slice(parts[i + 2], 0, ContentLimit))

\* strategy 3 on the parts of the split: for i in range(1, len(parts), 3)
SerialBlocksOf(parts) ==
    SelectSeq([j \in 1..((Len(parts) - 1) \div 3) |-> SerialChunk(parts, 3 * j - 1)],
              LAMBDA combined : Len(combined) > MinChunk)

SerialBlocks(text_clean) == SerialBlocksOf(re_split(serial_pattern, text_clean, {"I"}))

\* if not voter_blocks: strategy 3
OrSerialBlocks(text_clean, voter_blocks) ==
    IF Len(voter_blocks) = 0 THEN SerialBlocks(text_clean) ELSE voter_blocks

\* if not voter_blocks: strategy 2; then strategy 3 under its own test
OrNameBlocks(text_clean, voter_blocks) ==
    OrSerialBlocks(text_clean,
                   IF Len(voter_blocks) = 0 THEN NameBlocks(text_clean) ELSE voter_blocks)

SegmentClean(text_clean) == OrNameBlocks(text_clean, IdBlocks(text_clean))

find_voter_records_flexible(text) == SegmentClean(clean_ocr_text_advanced(text))

(***************************************************************************)
(* Record Builder: parse_voter_record_flexible.  The result is <<>> for    *)
(* None and <<voter_data>> for a record.                                   *)
(***************************************************************************)
\* range of ages a record may carry: 18 <= age <= 120
MinAge == 18
MaxAge == 120
\* 2 <= len(name) <= 50
MinName == 2
MaxName == 50
\* len(house) <= 30
MaxHouse == 30

\* [a-z]
Lower == Cls(LowerSet)
\* [A-Za-z\s\.]
NameChar == Cls(UpperSet \cup LowerSet \cup SpaceSet \cup {"."})
\* [A-Za-z0-9/\-]
HouseChar == Cls(UpperSet \cup LowerSet \cup DigitSet \cup {"/", "-"})
\* [A-Za-z0-9/\-\s]
HouseCharSp == Cls(UpperSet \cup LowerSet \cup DigitSet \cup {"/", "-"} \cup SpaceSet)
\* (?:^|\s)
StartOrSpace == Alt(<<Bol, Sp>>)
\* (?:$|\s)
EndOrSpace == Alt(<<Eol, Sp>>)
\* (?:\s*(?:House|Age|Gender|$))
BeforeNextLabel == Star(Sp) \o Alt(<<Lit("House"), Lit("Age"), Lit("Gender"), Eol>>)

\* the identifier shapes, each as one group
epic_patterns ==
    << \* r'([A-Z]{2,4}/\d+/\d+/\d+)'
       Pat(1, Grp(1, id_patterns[1].q)),
       \* r'([A-Z]{3}\d{7,10})'
       Pat(1, Grp(1, id_patterns[2].q)),
       \* r'([A-Z]{2,4}\d{7,10})'
       Pat(1, Grp(1, id_patterns[3].q)) >>

\* r'^(\d+)\s+'
ReLeadingSerial == Pat(1, Bol \o Grp(1, Plus(Dg)) \o Plus(Sp))

name_patterns ==
    << \* r'Name\s*:\s*([A-Za-z\s\.]+?)(?:\s*(?:Father|Husband|Other|Age|House|Gender))'
       Pat(1, Lit("Name") \o Star(Sp) \o Lit(":") \o Star(Sp) \o Grp(1, PlusLazy(NameChar))
              \o Star(Sp)
              \o Alt(<<Lit("Father"), Lit("Husband"), Lit("Other"), Lit("Age"), Lit("House"),
                       Lit("Gender")>>)),
       \* r'Name\s*:\s*([A-Za-z\s\.]+?)(?:\s*$)'
       Pat(1, Lit("Name") \o Star(Sp) \o Lit(":") \o Star(Sp) \o Grp(1, PlusLazy(NameChar))
              \o Star(Sp) \o Eol),
       \* r'(?:^|\s)([A-Z][a-z]+(?:\s+[A-Z][a-z]+)*)\s*(?:Father|Husband|w/o|s/o)'
       Pat(1, StartOrSpace
              \o Grp(1, Upper \o Plus(Lower) \o Star(Plus(Sp) \o Upper \o Plus(Lower)))
              \o Star(Sp)
              \o Alt(<<Lit("Father"), Lit("Husband"), Lit("w/o"), Lit("s/o")>>)) >>

relation_patterns ==
    << \* r'(?:Father|Husband|Other)(?:s?)?\s*Name\s*:\s*([A-Za-z\s\.]+?)(?:\s*(?:House|Age|Gender|$))'
       Pat(1, Alt(<<Lit("Father"), Lit("Husband"), Lit("Other")>>) \o Opt(Opt(Lit("s")))
              \o Star(Sp) \o Lit("Name") \o Star(Sp) \o Lit(":") \o Star(Sp)
              \o Grp(1, PlusLazy(NameChar)) \o BeforeNextLabel),
       \* r'(?:w/o|s/o|d/o)\s*([A-Za-z\s\.]+?)(?:\s*(?:House|Age|Gender|$))'
       Pat(1, Alt(<<Lit("w/o"), Lit("s/o"), Lit("d/o")>>) \o Star(Sp)
              \o Grp(1, PlusLazy(NameChar)) \o BeforeNextLabel),
       \* r'(?:Father|Husband)\s*:\s*([A-Za-z\s\.]+?)(?:\s*(?:House|Age|Gender|$))'
       Pat(1, Alt(<<Lit("Father"), Lit("Husband")>>) \o Star(Sp) \o Lit(":") \o Star(Sp)
              \o Grp(1, PlusLazy(NameChar)) \o BeforeNextLabel) >>

age_patterns ==
    << \* r'Age\s*:\s*(\d+)'
       Pat(1, Lit("Age") \o Star(Sp) \o Lit(":") \o Star(Sp) \o Grp(1, Plus(Dg))),
       \* r'Age\s+(\d+)'
       Pat(1, Lit("Age") \o Plus(Sp) \o Grp(1, Plus(Dg))),
       \* r'(\d+)\s*years?'
       Pat(1, Grp(1, Plus(Dg)) \o Star(Sp) \o Lit("year") \o Opt(Lit("s"))),
       \* r'(\d{2})\s*(?:Gender|Male|Female)'
       Pat(1, Grp(1, Rep(Dg, 2, 2, FALSE)) \o Star(Sp)
              \o Alt(<<Lit("Gender"), Lit("Male"), Lit("Female")>>)) >>

gender_patterns ==
    << \* r'Gender\s*:\s*(Male|Female|Third\s*Gender)'
       Pat(1, Lit("Gender") \o Star(Sp) \o Lit(":") \o Star(Sp)
              \o Grp(1, Alt(<<Lit("Male"), Lit("Female"),
                              Lit("Third") \o Star(Sp) \o Lit("Gender")>>))),
       \* r'(Male|Female)\s*(?:$|\s)'
       Pat(1, Grp(1, Alt(<<Lit("Male"), Lit("Female")>>)) \o Star(Sp) \o EndOrSpace),
       \* r'(?:^|\s)(M|F)\s*(?:$|\s)'
       Pat(1, StartOrSpace \o Grp(1, Alt(<<Lit("M"), Lit("F")>>)) \o Star(Sp) \o EndOrSpace) >>

house_patterns ==
    << \* r'House\s*(?:Number)?\s*:\s*([A-Za-z0-9/\-\s]+?)(?:\s*(?:Age|Gender|Photo|$))'
       Pat(1, Lit("House") \o Star(Sp) \o Opt(Lit("Number")) \o Star(Sp) \o Lit(":")
              \o Star(Sp) \o Grp(1, PlusLazy(HouseCharSp)) \o Star(Sp)
              \o Alt(<<Lit("Age"), Lit("Gender"), Lit("Photo"), Eol>>)),
       \* r'(?:^|\s)([A-Za-z0-9/\-]{1,20})\s*(?:Age|Gender)'
       Pat(1, StartOrSpace \o Grp(1, Rep(HouseChar, 1, 20, FALSE)) \o Star(Sp)
              \o Alt(<<Lit("Age"), Lit("Gender")>>)),
       \* r'(?:Address|House)\s*:\s*([A-Za-z0-9/\-\s]+?)(?:\s*$)'
       Pat(1, Alt(<<Lit("Address"), Lit("House")>>) \o Star(Sp) \o Lit(":") \o Star(Sp)
              \o Grp(1, PlusLazy(HouseCharSp)) \o Star(Sp) \o Eol) >>

\* metadata.get(key, default)
Get(metadata, key, default) == IF key \in DOMAIN metadata THEN metadata[key] ELSE default

\* re.search(r'\d', t)
HasDigit(t) == \E i \in 1..Len(t) : t[i] \in DigitSet

\* match.group(1) of a match, '' without one
GroupOne(m, clean_text) == IF m.ok THEN group(clean_text, m, 1) ELSE <<>>

\* 2 <= len(name) <= 50 and not re.search(r'\d', name)
ValidName(name) == MinName <= Len(name) /\ Len(name) <= MaxName /\ ~HasDigit(name)

RECURSIVE NameFrom(_, _, _), NameStep(_, _, _, _)
\* the cascade of a name field from the k-th pattern on: the first match that is a
\* valid name, '' when there is none
NameFrom(patterns, k, clean_text) ==
    IF k > Len(patterns) THEN <<>>
    ELSE NameStep(patterns, k, clean_text, re_search(patterns[k], clean_text, {"I", "M"}))

NameStep(patterns, k, clean_text, m) ==
    IF m.ok /\ ValidName(strip(group(clean_text, m, 1))) THEN strip(group(clean_text, m, 1))
    ELSE NameFrom(patterns, k + 1, clean_text)

\* 18 <= age <= 120
ValidAge(age) == MinAge <= age /\ age <= MaxAge

RECURSIVE AgeFrom(_, _), AgeStep(_, _, _)
\* a cascade that ends at the first pattern that matches, in range or not
AgeStep_EndsAtFirstMatch(k, clean_text, m) ==
    IF m.ok
    THEN (IF ValidAge(StrToNat(group(clean_text, m, 1)))
          THEN StrToNat(group(clean_text, m, 1)) ELSE 0)
    ELSE AgeFrom(k + 1, clean_text)

\* the cascade of the age from the k-th pattern on: the first match in the range of
\* ages, 0 when there is none
AgeFrom(k, clean_text) ==
    IF k > Len(age_patterns) THEN 0
    ELSE AgeStep(k, clean_text, re_search(age_patterns[k], clean_text, {"I"}))

AgeStep(k, clean_text, m) ==
    IF m.ok /\ ValidAge(StrToNat(group(clean_text, m, 1)))
    THEN StrToNat(group(clean_text, m, 1))
    ELSE AgeFrom(k + 1, clean_text)

\* brackets whose first limit leaves out the age 29
categorize_age_Below29(age) ==
    IF age < 18 THEN S("Under 18")
    ELSE IF age < 29 THEN S("18-29")
    ELSE IF age <= 45 THEN S("30-45")
    ELSE S("45+")

categorize_age(age) ==
    IF age < 18 THEN S("Under 18")
    ELSE IF age <= 29 THEN S("18-29")
    ELSE IF age <= 45 THEN S("30-45")
    ELSE S("45+")

\* voter_data['age_group'], set together with the age
AgeGroupOf(age) == IF age > 0 THEN categorize_age(age) ELSE <<>>

\* the letter for the text of the gender group
GenderLetter(gender_text) ==
    IF Contains(gender_text, S("male")) \/ gender_text = S("m") THEN S("M")
    ELSE IF Contains(gender_text, S("female")) \/ gender_text = S("f") THEN S("F")
    ELSE S("T")

\* voter_data['gender'] from the first gender pattern that matches
GenderOf(m, clean_text) == IF m.ok THEN GenderLetter(lower(group(clean_text, m, 1))) ELSE <<>>

RECURSIVE HouseFrom(_, _), HouseStep(_, _, _)
\* the cascade of the house number from the k-th pattern on
HouseFrom(k, clean_text) ==
    IF k > Len(house_patterns) THEN <<>>
    ELSE HouseStep(k, clean_text, re_search(house_patterns[k], clean_text, {"I", "M"}))

HouseStep(k, clean_text, m) ==
    IF m.ok /\ Len(strip(group(clean_text, m, 1))) <= MaxHouse
    THEN strip(group(clean_text, m, 1))
    ELSE HouseFrom(k + 1, clean_text)

\* the states and the district names that place a district in them
state_mappings ==
    << <<"west bengal", <<"hooghly", "kolkata", "howrah", "north 24 parganas",
                          "south 24 parganas", "darjeeling">> >>,
       <<"uttar pradesh", <<"agra", "lucknow", "kanpur", "allahabad", "varanasi", "meerut",
                            "ghaziabad">> >>,
       <<"maharashtra", <<"mumbai", "pune", "nagpur", "thane", "nashik">> >>,
       <<"gujarat", <<"ahmedabad", "surat", "vadodara", "rajkot">> >>,
       <<"rajasthan", <<"jaipur", "jodhpur", "udaipur", "bikaner">> >>,
       <<"bihar", <<"patna", "gaya", "muzaffarpur", "bhagalpur">> >>,
       <<"odisha", <<"bhubaneswar", "cuttack", "berhampur", "sambalpur">> >> >>

\* str.title(): each letter that follows no letter in upper case, the others in lower
title(t) ==
    [i \in 1..Len(t) |->
        IF i = 1 \/ t[i - 1] \notin (UpperSet \cup LowerSet) THEN Up(t[i]) ELSE Lo(t[i])]

RECURSIVE RegionFrom(_, _)
\* for state, districts in state_mappings.items(), from the k-th entry on
RegionFrom(k, district) ==
    IF k > Len(state_mappings) THEN district
    ELSE IF \E j \in 1..Len(state_mappings[k][2]) :
                Contains(lower(district), S(state_mappings[k][2][j]))
         THEN title(S(state_mappings[k][1]))
         ELSE RegionFrom(k + 1, district)

determine_region(district) == IF Len(district) = 0 THEN <<>> ELSE RegionFrom(1, district)

\* what the cascades find in the cleaned text of a block (serial is '' when the text
\* does not start with a number)
LocalFields(clean_text) ==
    [epic |-> GroupOne(FirstMatch(epic_patterns, 1, clean_text, {}), clean_text),
     serial |-> GroupOne(re_search(ReLeadingSerial, clean_text, {}), clean_text),
     name |-> NameFrom(name_patterns, 1, clean_text),
     father_husband_name |-> NameFrom(relation_patterns, 1, clean_text),
     age |-> AgeFrom(1, clean_text),
     gender |-> GenderOf(FirstMatch(gender_patterns, 1, clean_text, {"I"}), clean_text),
     house_no |-> HouseFrom(1, clean_text)]

\* voter_data['serial_no']: the number the text starts with, or str(record_index)
SerialOf(local, record_index) ==
    IF Len(local.serial) > 0 THEN local.serial ELSE NatToStr(record_index)

\* voter_data after all the cascades
VoterData(local, record_index, metadata) ==
    [lok_sabha_constituency_no |-> Get(metadata, "lok_sabha_constituency_no", <<>>),
     vidhan_sabha_constituency_no |-> Get(metadata, "vidhan_sabha_constituency_no", <<>>),
     part_no |-> Get(metadata, "part_no", <<>>),
     vidhan_sabha_name |-> Get(metadata, "vidhan_sabha_name", <<>>),
     grampanchayet_name |-> <<>>,
     ward_no_name |-> <<>>,
     tehsil_block_name |-> Get(metadata, "tehsil", Get(metadata, "subdivision", <<>>)),
     region |-> determine_region(Get(metadata, "district", <<>>)),
     division |-> Get(metadata, "subdivision", <<>>),
     district |-> Get(metadata, "district", <<>>),
     epic |-> local.epic,
     serial_no |-> SerialOf(local, record_index),
     name |-> local.name,
     father_husband_name |-> local.father_husband_name,
     house_no |-> local.house_no,
     age |-> local.age,
     gender |-> local.gender,
     religion |-> <<>>,
     caste |-> <<>>,
     age_group |-> AgeGroupOf(local.age),
     family_size |-> <<>>]

\* an acceptance rule that asks for the age only
Accepted_AnyName(name, age) == age > 0

\* if voter_data['name'] and voter_data['age'] > 0
Accepted(name, age) == Len(name) > 0 /\ age > 0

\* return voter_data, or return None
ParseFields(local, record_index, metadata) ==
    IF Accepted(local.name, local.age) THEN <<VoterData(local, record_index, metadata)>>
    ELSE <<>>

parse_voter_record_flexible(record_text, record_index, metadata) ==
    ParseFields(LocalFields(clean_ocr_text_advanced(record_text)), record_index, metadata)

(***************************************************************************)
(* Bounded inputs.                                                         *)
(***************************************************************************)
RECURSIVE Concats(_, _)
\* the texts made of at most n fragments of a set
Concats(frags, n) ==
    IF n = 0 THEN {<<>>}
    ELSE LET shorter == Concats(frags, n - 1)
         IN  shorter \cup {S(f) \o t : f \in frags, t \in shorter}

RECURSIVE SeqsUpTo(_, _)
\* the sequences of at most n elements of a set
SeqsUpTo(set, n) ==
    IF n = 0 THEN {<<>>}
    ELSE LET shorter == SeqsUpTo(set, n - 1)
         IN  shorter \cup {<<x>> \o q : x \in set, q \in shorter}

MaxNormFrags == 3

\* fragments of the normalizer's inputs: a word the table rewrites, the pieces of a
\* word that a character correction completes, and the punctuation and white space
\* the clean-up rules act on
NormFrags == {"Ma", "|", "e", "Aqe", " ", "\n", ":", ","}

NormInputs == Concats(NormFrags, MaxNormFrags)

MaxOcrTokens == 2

\* what image_to_string may return for one profile
OcrTexts == {S("A"), S("BB")}

\* token confidences as image_to_data reports them (-1 marks a box without text)
OcrConfs == {-1, 10, 40}

\* what image_to_data may return: it raises, or gives the tokens' confidences
OcrData ==
    {[ok |-> FALSE, conf |-> <<>>]}
        \cup {[ok |-> TRUE, conf |-> c] : c \in SeqsUpTo(OcrConfs, MaxOcrTokens)}

MaxMetaFrags == 2

\* fragments of header text: each holds what one or more patterns of a cascade match
MetaFrags ==
    {"Assembly Constituency 42 - SAMPLE TOWN ", "9 - ABCDEFGH ", "Part No: 7 ", "Part 5 ",
     "12", "Lok Sabha 3 - NORTH ", "District: PUNE "}

MetaInputs == Concats(MetaFrags, MaxMetaFrags)

MaxSegFrags == 3

\* fragments of page text: a name label, a long name, the keywords of a record, an
\* identifier with a group of one zero, an identifier, a serial number, a house
\* that makes a block of 20 characters with an identifier before it, and an
\* identifier of three letters, which two of the shapes match
SegFrags ==
    {"Name: ", "Alexander Bartholomew Smithson ", "Age 30 Gender Male ", "WB/1/0/3 ",
     "AB1234567 ", "12 ", "House No 1 ", "SVG2562940 "}

SegInputs == Concats(SegFrags, MaxSegFrags)

\* the largest record_index given to the record builder
MaxIndex == 2

\* how a block may begin: with nothing, with a serial number, with the serial number 0
BuildLeads == {"", "12 ", "0 "}

BuildNames == {"", "Name: Jane Roe "}

\* how a block may write its age: with the label and a colon (ages at the ends of the
\* brackets and outside the range), with the label alone, as a number of years, as a
\* bare number before the gender, twice, or not at all
BuildAges ==
    {"", "Age: 12 ", "Age: 17 ", "Age: 18 ", "Age: 29 ", "Age: 30 ", "Age: 45 ", "Age: 46 ",
     "Age: 120 ", "Age: 121 ", "Age: 150 ", "Age 34 ", "Age 150 ", "17 years ", "46 years ",
     "12 ", "52 ", "150 ", "Age: 150 34 years ", "Age: 12 Age 120 "}

BuildGenders == {"", "Gender: Female", "Gender: Male", "Gender: Third Gender", "Male", "F", "M"}

\* the block of the worked example of the specification
BuildExample == "12 AB1234567 Name: Jane Roe Age: 34 Gender: Female House: 12A"

\* the blocks of the model, as <<lead, name, age, gender>>: every age with and without
\* a serial number and a gender, every gender, every lead with and without a name
BuildShapes ==
    ({"", "12 "} \X {"Name: Jane Roe "} \X BuildAges \X {"", "Gender: Female"})
        \cup ({""} \X {"Name: Jane Roe "} \X {"Age: 34 "} \X BuildGenders)
        \cup (BuildLeads \X BuildNames \X {"Age: 34 "} \X {"Gender: Male"})

BuildInputs ==
    {S(BuildExample)} \cup {S(b[1] \o b[2] \o b[3] \o b[4]) : b \in BuildShapes}

\* the largest number of pages of a document
MaxPages == 4

\* what the selector may return for a page: the empty string, white space, two header
\* pages, a record, a record too young, a record with a part number after it, a record
\* without a name, two records
PageTexts ==
    {S(""),
     S(" "),
     S("Assembly Constituency 42 - SAMPLE TOWN Part No: 7 District: PUNE"),
     S("Part No: 9 Tehsil: HAVELI"),
     S("AB1234567 Name: Jane Roe Age: 34 Gender: Female"),
     S("XY7654321 Name: Al Bo Age: 17 Gender: Male"),
     S("CD1234567 Name: Raj Roy Age: 61 Gender: Male Part No: 5"),
     S("EF1234567 Age: 40 Gender: Male House: 12"),
     S("AB1234567 Name: Jane Roe Age: 34 Gender: Female House: 12A Photo "
         \o "GH7654321 Name: Tom Poe Age: 52 Gender: Male")}

\* in the histories of a run, the text of a page for which the selector raised (the
\* loop got no text for it)
NoText == <<>>

\* the functions of a page's text, computed once for each text of the model
\* not page_text.strip()
PageBlank == [t \in PageTexts \cup {NoText} |-> Len(strip(t)) = 0]

PageMetadata == [t \in PageTexts \cup {NoText} |-> extract_metadata_flexible(t)]

PageBlocks == [t \in PageTexts \cup {NoText} |-> find_voter_records_flexible(t)]

AllBlocks == UNION {Range(PageBlocks[t]) : t \in PageTexts}

BlockLocal == [b \in AllBlocks |-> LocalFields(clean_ocr_text_advanced(b))]

\* the districts the pages of the model name ('' when a page names none), and
\* determine_region of each
PageDistricts == {Get(PageMetadata[t], "district", <<>>) : t \in PageTexts \cup {NoText}}

PageRegion == [d \in PageDistricts |-> determine_region(d)]

(***************************************************************************)
(* Page Pipeline Orchestrator: the body of the loop of                     *)
(* extract_from_scanned_pdf.                                               *)
(***************************************************************************)
\* if page_num <= 3
MetadataPages == 3

\* a test that lets every page through
IsMetadataPage_Every(page_num) == TRUE

IsMetadataPage(page_num) == page_num <= MetadataPages

\* a merge that keeps the values the mapping already has
update_KeepOld(old, new) == old @@ new

\* dict.update: the keys of new take new's values, the other keys keep theirs
update(old, new) == new @@ old

\* self.metadata after the page: merged with the page's metadata on the first pages
MergePage(page_num, metadata, page_text) ==
    IF IsMetadataPage(page_num) THEN update(metadata, PageMetadata[page_text]) ELSE metadata

\* parse_voter_record_flexible(block, record_index, metadata) on a block of a page
ParseBlock(block, record_index, metadata) ==
    ParseFields(BlockLocal[block], record_index, metadata)

RECURSIVE ParseBlocks_Prepend(_, _, _, _)
\* a loop that puts each new record in front of the list
ParseBlocks_Prepend(voter_blocks, k, all_voters, metadata) ==
    IF k > Len(voter_blocks) THEN all_voters
    ELSE ParseBlocks_Prepend(voter_blocks, k + 1,
                             ParseBlock(voter_blocks[k], Len(all_voters) + k, metadata)
                                \o all_voters,
                             metadata)

RECURSIVE ParseBlocks(_, _, _, _)
\* for block_index, block in enumerate(voter_blocks), from the k-th block on: all_voters
\* with the records of the blocks appended
ParseBlocks(voter_blocks, k, all_voters, metadata) ==
    IF k > Len(voter_blocks) THEN all_voters
    ELSE ParseBlocks(voter_blocks, k + 1,
                     all_voters \o ParseBlock(voter_blocks[k], Len(all_voters) + k, metadata),
                     metadata)

\* a loop body that builds the page's records before it merges the page's metadata
PageBody_BuildFirst(page_num, metadata, all_voters, page_text) ==
    [metadata |-> MergePage(page_num, metadata, page_text),
     all_voters |-> ParseBlocks(PageBlocks[page_text], 1, all_voters, metadata)]

\* a loop body whose records refer to self.metadata instead of copying from it: the
\* part number of every record is the one of the mapping after the merge
PageBody_SharedMetadata(page_num, metadata, all_voters, page_text) ==
    [metadata |-> MergePage(page_num, metadata, page_text),
     all_voters |->
        ParseBlocks(PageBlocks[page_text], 1,
                    [i \in 1..Len(all_voters) |->
                        [all_voters[i] EXCEPT
                            !.part_no = Get(MergePage(page_num, metadata, page_text),
                                            "part_no", <<>>)]],
                    MergePage(page_num, metadata, page_text))]

\* the loop body for a page with text: self.metadata and all_voters after it
PageBody(page_num, metadata, all_voters, page_text) ==
    [metadata |-> MergePage(page_num, metadata, page_text),
     all_voters |-> ParseBlocks(PageBlocks[page_text], 1, all_voters,
                                MergePage(page_num, metadata, page_text))]

(***************************************************************************)
(* process_file of the GUI (src/script_1.py): the body of its loop.        *)
(***************************************************************************)
RECURSIVE GuiParseBlocks(_, _, _, _)
\* page_voters: the records of the blocks from the k-th on, each parsed with the index
\* len(all_voters) + block_idx + 1, where all_voters is the list before the page
GuiParseBlocks(voter_blocks, k, all_voters, metadata) ==
    IF k > Len(voter_blocks) THEN <<>>
    ELSE ParseBlock(voter_blocks[k], Len(all_voters) + k, metadata)
            \o GuiParseBlocks(voter_blocks, k + 1, all_voters, metadata)

\* the try body for a page with text: extractor.metadata after it, and all_voters
\* extended with page_voters
GuiPageBody(page_num, metadata, all_voters, page_text) ==
    [metadata |-> MergePage(page_num, metadata, page_text),
     all_voters |-> all_voters
                      \o GuiParseBlocks(PageBlocks[page_text], 1, all_voters,
                                        MergePage(page_num, metadata, page_text))]

(***************************************************************************)
(* The debug output: the files written to output_dir when debug_mode is    *)
(* set, and what the selector returns after writing.                       *)
(***************************************************************************)
\* a selector whose debug branch ends the call without the text
SelectorReturn_LosesText(debug_mode, best_text) ==
    IF debug_mode /\ Len(best_text) > 0 THEN <<>> ELSE best_text

\* return best_text, after the debug branch
SelectorReturn(debug_mode, best_text) == best_text

\* the files of a page: page_NNN_processed.png of preprocess_image_advanced, and
\* page_NNN_raw_ocr.txt of the selector (if self.debug_mode and best_text)
PageFiles(debug_mode, page_num, best_text) ==
    IF ~debug_mode THEN <<>>
    ELSE <<[name |-> "processed", page |-> page_num]>>
            \o (IF Len(best_text) > 0 THEN <<[name |-> "raw_ocr", page |-> page_num]>>
                ELSE <<>>)

\* the files written after the loop of extract_from_scanned_pdf:
\* all_pages_combined_text.txt and extraction_summary.json
RunFiles(debug_mode) ==
    IF ~debug_mode THEN <<>>
    ELSE <<[name |-> "combined_text", page |-> 0], [name |-> "summary", page |-> 0]>>

(***************************************************************************)
(* The ends of a run: main (src/script.py) and process_file after their    *)
(* loops.                                                                  *)
(***************************************************************************)
\* save_to_excel(voters, output_path): raises on an empty list, else writes the file
save_to_excel(voters) == IF Len(voters) = 0 THEN "raises" ELSE "saved"

\* what a call of save_to_excel(voters) in main's try block ends with
MainSave(voters) ==
    IF save_to_excel(voters) = "saved"
    THEN [outcome |-> "success", exported |-> <<voters>>, exit_status |-> 0]
    ELSE [outcome |-> "error", exported |-> <<voters>>, exit_status |-> 1]

\* a main that saves whatever the extraction returned
MainAfterExtract_AlwaysSaves(voters) == MainSave(voters)

\* main after extract_from_scanned_pdf returned: if voters, save and report, else warn
MainAfterExtract(voters) ==
    IF Len(voters) > 0 THEN MainSave(voters)
    ELSE [outcome |-> "warning", exported |-> <<>>, exit_status |-> 0]

\* process_file after the stop test that follows its loop: the warning for no
\* records, or the save
GuiSaveResults(all_voters) ==
    IF Len(all_voters) = 0 THEN [outcome |-> "warning", exported |-> <<>>]
    ELSE IF save_to_excel(all_voters) = "saved"
         THEN [outcome |-> "success", exported |-> <<all_voters>>]
         ELSE [outcome |-> "error", exported |-> <<all_voters>>]

(***************************************************************************)
(* State.                                                                  *)
(***************************************************************************)
VARIABLES
    norm_pc,      \* normalizer run: "off", "start", "once", "twice"
    norm_text,    \* the text given to clean_ocr_text_advanced
    norm_once,    \* clean_ocr_text_advanced(norm_text)
    norm_twice,   \* clean_ocr_text_advanced(norm_once)
    ocr_pc,       \* selector run: "off", "loop", "done"
    ocr_i,        \* the index of the profile the loop tries next
    ocr_best,     \* best_text and best_confidence
    ocr_log,      \* history: what each attempt so far gave
    ocr_data,     \* history: what image_to_data gave in the latest attempt
    ocr_result,   \* what the selector returned
    meta_pc,      \* metadata extractor run: "off", "start", "done"
    meta_text,    \* the text given to extract_metadata_flexible
    meta_result,  \* the mapping it returned
    seg_pc,       \* segmenter run: "off", "clean", "ids", "names", "serials", "done"
    seg_text,     \* the text given to find_voter_records_flexible
    seg_clean,    \* text_clean
    seg_blocks,   \* voter_blocks
    seg_ran,      \* history: the strategies that ran and how many blocks each made
    seg_from,     \* history: for each block of voter_blocks, the strategy that made it
    build_pc,     \* record builder run: "off", "start", "done"
    build_text,   \* record_text given to parse_voter_record_flexible
    build_index,  \* record_index given to it
    build_clean,  \* clean_text
    build_local,  \* history: what the cascades found in clean_text (<<>> before)
    build_result, \* what it returned: <<voter_data>>, or <<>> for None
    run_pc,       \* pipeline run: "off", "pages", "save" (process_file past the stop
                  \* test that follows its loop), "done"
    front,        \* who runs the pipeline: "call" (extract_from_scanned_pdf called on
                  \* an extractor), "main" (the command line), "gui" (process_file)
    debug_mode,   \* self.debug_mode of the extractor
    is_processing, \* self.is_processing of the GUI
    convert_button, \* the state of the GUI's Start button: "normal" or "disabled"
    stop_button,  \* the state of the GUI's Stop button
    workers,      \* the number of threads that run process_file
    page_num,     \* the number of the last page the loop has handled
    metadata,     \* self.metadata
    run_meta0,    \* history: self.metadata when the run started
    all_voters,   \* all_voters
    run_pages,    \* history: the text of each page handled
    run_page_of,  \* history: for each record of all_voters, the page it was built on
    run_dropped,  \* history: the blocks for which the record builder returned None
    run_best,     \* history: best_text of the selector for each page handled
    run_block_of, \* history: for each record of all_voters, the index of its block
                  \* among the blocks of its page
    debug_files,  \* history: the files the run wrote to output_dir
    outcome,      \* how the run ended: "none" while it runs
    returned,     \* <<the list extract_from_scanned_pdf returned>>, <<>> before
    exported,     \* the lists given to save_to_excel, one per call
    exit_status   \* the exit status of the command line (0 unless sys.exit(1))

norm_vars == <<norm_pc, norm_text, norm_once, norm_twice>>

ocr_vars == <<ocr_pc, ocr_i, ocr_best, ocr_log, ocr_data, ocr_result>>

meta_vars == <<meta_pc, meta_text, meta_result>>

seg_vars == <<seg_pc, seg_text, seg_clean, seg_blocks, seg_ran, seg_from>>

build_vars == <<build_pc, build_text, build_index, build_clean, build_local, build_result>>

button_vars == <<convert_button, stop_button, workers>>

run_vars ==
    <<page_num, run_pc, front, debug_mode, is_processing, button_vars, metadata, run_meta0,
      all_voters, run_pages, run_page_of, run_dropped, run_best, run_block_of, debug_files,
      outcome, returned, exported, exit_status>>

vars == <<norm_vars, ocr_vars, meta_vars, seg_vars, build_vars, run_vars>>

NormOff == norm_pc = "off" /\ norm_text = <<>> /\ norm_once = <<>> /\ norm_twice = <<>>

OcrOff ==
    /\ ocr_pc = "off"
    /\ ocr_i = 0
    /\ ocr_best = NoBest
    /\ ocr_log = <<>>
    /\ ocr_data = NoData
    /\ ocr_result = <<>>

MetaOff == meta_pc = "off" /\ meta_text = <<>> /\ meta_result = <<>>

SegOff ==
    /\ seg_pc = "off"
    /\ seg_text = <<>>
    /\ seg_clean = <<>>
    /\ seg_blocks = <<>>
    /\ seg_ran = <<>>
    /\ seg_from = <<>>

BuildOff ==
    /\ build_pc = "off"
    /\ build_text = <<>>
    /\ build_index = 0
    /\ build_clean = <<>>
    /\ build_local = <<>>
    /\ build_result = <<>>

\* the GUI with no worker: Start enabled, Stop disabled
ButtonsIdle ==
    /\ convert_button = "normal"
    /\ stop_button = "disabled"
    /\ workers = 0

\* the histories and the results of a run that has not handled a page, on an extractor
\* that was just made
RunStart ==
    /\ page_num = 0
    /\ metadata = <<>>
    /\ run_meta0 = <<>>
    /\ all_voters = <<>>
    /\ run_pages = <<>>
    /\ run_page_of = <<>>
    /\ run_dropped = <<>>
    /\ run_best = <<>>
    /\ run_block_of = <<>>
    /\ debug_files = <<>>
    /\ outcome = "none"
    /\ returned = <<>>
    /\ exported = <<>>
    /\ exit_status = 0

RunOff ==
    /\ run_pc = "off"
    /\ front = "off"
    /\ debug_mode = FALSE
    /\ is_processing = FALSE
    /\ ButtonsIdle
    /\ RunStart

(***************************************************************************)
(* The normalizer applied to a text, and again to its own result (as the   *)
(* segmenter and the record builder do with text that is already clean).   *)
(***************************************************************************)
NormInit ==
    /\ norm_pc = "start"
    /\ norm_text \in NormInputs
    /\ norm_once = <<>>
    /\ norm_twice = <<>>
    /\ OcrOff /\ MetaOff /\ SegOff /\ RunOff /\ BuildOff

NormalizeOnce ==
    /\ norm_pc = "start"
    /\ norm_once' = clean_ocr_text_advanced(norm_text)
    /\ norm_pc' = "once"
    /\ UNCHANGED <<norm_text, norm_twice, ocr_vars, meta_vars, seg_vars, build_vars, run_vars>>

NormalizeTwice ==
    /\ norm_pc = "once"
    /\ norm_twice' = clean_ocr_text_advanced(norm_once)
    /\ norm_pc' = "twice"
    /\ UNCHANGED <<norm_text, norm_once, ocr_vars, meta_vars, seg_vars, build_vars, run_vars>>

NormNext == NormalizeOnce \/ NormalizeTwice

SpecNorm == NormInit /\ [][NormNext]_vars

(***************************************************************************)
(* The selector on one page image: one step per profile of ocr_configs,    *)
(* then the return.                                                        *)
(***************************************************************************)
OcrInit ==
    /\ ocr_pc = "loop"
    /\ ocr_i = 1
    /\ ocr_best = NoBest
    /\ ocr_log = <<>>
    /\ ocr_data = NoData
    /\ ocr_result = <<>>
    /\ NormOff /\ MetaOff /\ SegOff /\ RunOff /\ BuildOff

\* one pass of the loop body in which image_to_string returns text; image_to_data
\* returns data or raises inside the inner try
OcrAttempt(text, data) ==
    /\ ocr_pc = "loop"
    /\ ocr_i <= Len(ocr_configs)
    /\ ocr_best' = KeepBest(ocr_best, text, avg_confidence(text, data))
    /\ ocr_log' = Append(ocr_log, [config |-> ocr_configs[ocr_i], ok |-> TRUE, text |-> text,
                                   score |-> avg_confidence(text, data)])
    /\ ocr_data' = data
    /\ ocr_i' = ocr_i + 1
    /\ UNCHANGED <<ocr_pc, ocr_result, norm_vars, meta_vars, seg_vars, build_vars, run_vars>>

\* a loop body without the try: the exception ends the run of the selector
OcrAttemptFails_Propagates ==
    /\ ocr_pc = "loop"
    /\ ocr_i <= Len(ocr_configs)
    /\ ocr_log' = Append(ocr_log, [config |-> ocr_configs[ocr_i], ok |-> FALSE, text |-> <<>>,
                                   score |-> <<0, 1>>])
    /\ ocr_data' = NoData
    /\ ocr_pc' = "done"
    /\ UNCHANGED <<ocr_i, ocr_best, ocr_result, norm_vars, meta_vars, seg_vars, build_vars, run_vars>>

\* one pass of the loop body in which image_to_string raises: except Exception, continue
OcrAttemptFails ==
    /\ ocr_pc = "loop"
    /\ ocr_i <= Len(ocr_configs)
    /\ ocr_log' = Append(ocr_log, [config |-> ocr_configs[ocr_i], ok |-> FALSE, text |-> <<>>,
                                   score |-> <<0, 1>>])
    /\ ocr_data' = NoData
    /\ ocr_i' = ocr_i + 1
    /\ UNCHANGED <<ocr_pc, ocr_best, ocr_result, norm_vars, meta_vars, seg_vars, build_vars, run_vars>>

\* return best_text
OcrReturn ==
    /\ ocr_pc = "loop"
    /\ ocr_i > Len(ocr_configs)
    /\ ocr_result' = ocr_best.text
    /\ ocr_pc' = "done"
    /\ UNCHANGED <<ocr_i, ocr_best, ocr_log, ocr_data, norm_vars, meta_vars, seg_vars, build_vars, run_vars>>

OcrNext ==
    \/ \E text \in OcrTexts, data \in OcrData : OcrAttempt(text, data)
    \/ OcrAttemptFails
    \/ OcrReturn

SpecOcr == OcrInit /\ [][OcrNext]_vars

(***************************************************************************)
(* The metadata extractor on one text.                                     *)
(***************************************************************************)
MetaInit ==
    /\ meta_pc = "start"
    /\ meta_text \in MetaInputs
    /\ meta_result = <<>>
    /\ NormOff /\ OcrOff /\ SegOff /\ RunOff /\ BuildOff

ExtractMetadata ==
    /\ meta_pc = "start"
    /\ meta_result' = extract_metadata_flexible(meta_text)
    /\ meta_pc' = "done"
    /\ UNCHANGED <<meta_text, norm_vars, ocr_vars, seg_vars, build_vars, run_vars>>

MetaNext == ExtractMetadata

SpecMeta == MetaInit /\ [][MetaNext]_vars

(***************************************************************************)
(* The segmenter on one text: the cleaning, then one step per strategy.    *)
(***************************************************************************)
SegInit ==
    /\ seg_pc = "clean"
    /\ seg_text \in SegInputs
    /\ seg_clean = <<>>
    /\ seg_blocks = <<>>
    /\ seg_ran = <<>>
    /\ seg_from = <<>>
    /\ NormOff /\ OcrOff /\ MetaOff /\ RunOff /\ BuildOff

\* text_clean = self.clean_ocr_text_advanced(text); voter_blocks = []
SegClean ==
    /\ seg_pc = "clean"
    /\ seg_clean' = clean_ocr_text_advanced(seg_text)
    /\ seg_pc' = "ids"
    /\ UNCHANGED <<seg_text, seg_blocks, seg_ran, seg_from,
                   norm_vars, ocr_vars, meta_vars, build_vars, run_vars>>

\* a strategy runs and appends its blocks to voter_blocks
SegRun(strategy, blocks, next) ==
    /\ seg_blocks' = seg_blocks \o blocks
    /\ seg_ran' = Append(seg_ran, [strategy |-> strategy, made |-> Len(blocks)])
    /\ seg_from' = seg_from \o [i \in 1..Len(blocks) |-> strategy]
    /\ seg_pc' = next
    /\ UNCHANGED <<seg_text, seg_clean, norm_vars, ocr_vars, meta_vars, build_vars, run_vars>>

\* a strategy is passed over
SegSkip(next) ==
    /\ seg_pc' = next
    /\ UNCHANGED <<seg_text, seg_clean, seg_blocks, seg_ran, seg_from,
                   norm_vars, ocr_vars, meta_vars, build_vars, run_vars>>

\* strategy 1: the blocks around the identifiers
SegIdentifiers ==
    /\ seg_pc = "ids"
    /\ SegRun("id", IdBlocks(seg_clean), "names")

\* strategy 2 without its test
SegNameLabels_Always ==
    /\ seg_pc = "names"
    /\ SegRun("name", NameBlocks(seg_clean), "serials")

\* strategy 2: if not voter_blocks, the chunks after the name labels
SegNameLabels ==
    /\ seg_pc = "names"
    /\ IF Len(seg_blocks) = 0 THEN SegRun("name", NameBlocks(seg_clean), "serials")
       ELSE SegSkip("serials")

\* strategy 3: if not voter_blocks, the pieces after the serial numbers; return
SegSerials ==
    /\ seg_pc = "serials"
    /\ IF Len(seg_blocks) = 0 THEN SegRun("serial", SerialBlocks(seg_clean), "done")
       ELSE SegSkip("done")

SegNext == SegClean \/ SegIdentifiers \/ SegNameLabels \/ SegSerials

SpecSeg == SegInit /\ [][SegNext]_vars

(***************************************************************************)
(* The record builder on one block.                                        *)
(***************************************************************************)
BuildInit ==
    /\ build_pc = "start"
    /\ build_text \in BuildInputs
    /\ build_index \in 1..MaxIndex
    /\ build_clean = <<>>
    /\ build_local = <<>>
    /\ build_result = <<>>
    /\ NormOff /\ OcrOff /\ MetaOff /\ SegOff /\ RunOff

\* parse_voter_record_flexible(build_text, build_index, {})
Build ==
    /\ build_pc = "start"
    /\ build_clean' = clean_ocr_text_advanced(build_text)
    /\ build_local' = LocalFields(build_clean')
    /\ build_result' = ParseFields(build_local', build_index, <<>>)
    /\ build_pc' = "done"
    /\ UNCHANGED <<build_text, build_index, norm_vars, ocr_vars, meta_vars, seg_vars, run_vars>>

BuildNext == Build

SpecBuild == BuildInit /\ [][BuildNext]_vars

(***************************************************************************)
(* The pipeline on a document of at most MaxPages pages: one step per page *)
(* of the loop of extract_from_scanned_pdf or of process_file, then the    *)
(* end of the run.  main builds its extractor with debug_mode=True; the    *)
(* GUI starts process_file with is_processing set.                         *)
(***************************************************************************)
Init ==
    /\ run_pc = "pages"
    /\ front \in {"call", "main", "gui"}
    /\ debug_mode \in BOOLEAN
    /\ front = "main" => debug_mode
    /\ is_processing = (front = "gui")
    /\ IF front = "gui"
       THEN convert_button = "disabled" /\ stop_button = "normal" /\ workers = 1
       ELSE ButtonsIdle
    /\ RunStart
    /\ NormOff /\ OcrOff /\ MetaOff /\ SegOff /\ BuildOff

\* the loop takes the next page: in process_file only while is_processing is set
NextPage ==
    /\ run_pc = "pages"
    /\ page_num < MaxPages
    /\ front = "gui" => is_processing

\* the selector returned page_text for the next page, and the loop body left
\* self.metadata and all_voters as in after
PageStep(best_text, page_text, after) ==
    /\ page_num' = page_num + 1
    /\ metadata' = after.metadata
    /\ all_voters' = after.all_voters
    /\ run_pages' = Append(run_pages, page_text)
    /\ run_best' = Append(run_best, best_text)
    /\ run_page_of' = run_page_of
                        \o [i \in 1..(Len(after.all_voters) - Len(all_voters)) |-> page_num + 1]
    /\ run_block_of' = run_block_of
                        \o SelectSeq([k \in 1..Len(PageBlocks[page_text]) |-> k],
                                     LAMBDA k : ParseBlock(PageBlocks[page_text][k], 0, <<>>)
                                                    # <<>>)
    /\ run_dropped' = run_dropped
                        \o SelectSeq(PageBlocks[page_text],
                                     LAMBDA block : ParseBlock(block, 0, <<>>) = <<>>)
    /\ debug_files' = debug_files \o PageFiles(debug_mode, page_num + 1, best_text)
    /\ UNCHANGED <<run_pc, front, debug_mode, is_processing, outcome, returned, exported,
                   exit_status, run_meta0, button_vars, norm_vars, ocr_vars, meta_vars, seg_vars,
                   build_vars>>

\* a loop that returns at the first page without text
SkipPage_EndsRun(best_text) ==
    /\ NextPage
    /\ PageBlank[SelectorReturn(debug_mode, best_text)]
    /\ page_num' = page_num + 1
    /\ run_pages' = Append(run_pages, SelectorReturn(debug_mode, best_text))
    /\ run_best' = Append(run_best, best_text)
    /\ debug_files' = debug_files \o PageFiles(debug_mode, page_num + 1, best_text)
    /\ run_pc' = "done"
    /\ returned' = <<all_voters>>
    /\ UNCHANGED <<front, debug_mode, is_processing, metadata, all_voters,
                   run_page_of, run_dropped, run_block_of, outcome, exported,
                   exit_status, run_meta0, button_vars, norm_vars, ocr_vars, meta_vars, seg_vars,
                   build_vars>>

\* a page for which the selector returned no text: continue
SkipPage(best_text) ==
    /\ NextPage
    /\ PageBlank[SelectorReturn(debug_mode, best_text)]
    /\ page_num' = page_num + 1
    /\ run_pages' = Append(run_pages, SelectorReturn(debug_mode, best_text))
    /\ run_best' = Append(run_best, best_text)
    /\ debug_files' = debug_files \o PageFiles(debug_mode, page_num + 1, best_text)
    /\ UNCHANGED <<run_pc, front, debug_mode, is_processing, metadata, all_voters,
                   run_page_of, run_dropped, run_block_of, outcome, returned, exported,
                   exit_status, run_meta0, button_vars, norm_vars, ocr_vars, meta_vars, seg_vars,
                   build_vars>>

\* extract_from_scanned_pdf on a page with text: its metadata is merged on the first
\* pages, its blocks are parsed against self.metadata and the records appended
ProcessPage(best_text) ==
    /\ NextPage
    /\ front \in {"call", "main"}
    /\ ~PageBlank[SelectorReturn(debug_mode, best_text)]
    /\ PageStep(best_text, SelectorReturn(debug_mode, best_text),
                PageBody(page_num + 1, metadata, all_voters,
                         SelectorReturn(debug_mode, best_text)))

\* process_file on a page with text
GuiProcessPage(best_text) ==
    /\ NextPage
    /\ front = "gui"
    /\ ~PageBlank[SelectorReturn(debug_mode, best_text)]
    /\ PageStep(best_text, SelectorReturn(debug_mode, best_text),
                GuiPageBody(page_num + 1, metadata, all_voters,
                            SelectorReturn(debug_mode, best_text)))

\* the selector raises for the next page (preprocess_image_advanced is outside its
\* try) in extract_from_scanned_pdf: the exception ends the call, and main's handler
\* exits with status 1
PageRaises ==
    /\ NextPage
    /\ front \in {"call", "main"}
    /\ page_num' = page_num + 1
    /\ run_pages' = Append(run_pages, NoText)
    /\ run_best' = Append(run_best, NoText)
    /\ run_pc' = "done"
    /\ outcome' = IF front = "main" THEN "error" ELSE "raised"
    /\ exit_status' = IF front = "main" THEN 1 ELSE exit_status
    /\ UNCHANGED <<front, debug_mode, is_processing, metadata, all_voters, run_page_of,
                   run_dropped, run_block_of, debug_files, returned, exported,
                   run_meta0, button_vars, norm_vars, ocr_vars, meta_vars, seg_vars,
                   build_vars>>

\* the selector raises for the next page in process_file: except Exception logs the
\* error and the loop goes on
GuiPageRaises ==
    /\ NextPage
    /\ front = "gui"
    /\ page_num' = page_num + 1
    /\ run_pages' = Append(run_pages, NoText)
    /\ run_best' = Append(run_best, NoText)
    /\ UNCHANGED <<run_pc, front, debug_mode, is_processing, metadata, all_voters,
                   run_page_of, run_dropped, run_block_of, debug_files, outcome, returned,
                   exported, exit_status, run_meta0, button_vars, norm_vars, ocr_vars, meta_vars, seg_vars,
                   build_vars>>

\* the document has no more pages: extract_from_scanned_pdf writes its debug files and
\* returns all_voters to its caller
Finish ==
    /\ run_pc = "pages"
    /\ front = "call"
    /\ run_pc' = "done"
    /\ debug_files' = debug_files \o RunFiles(debug_mode)
    /\ returned' = <<all_voters>>
    /\ outcome' = "returned"
    /\ UNCHANGED <<page_num, front, debug_mode, is_processing, metadata, all_voters,
                   run_pages, run_page_of, run_dropped, run_best, run_block_of, exported,
                   exit_status, run_meta0, button_vars, norm_vars, ocr_vars, meta_vars, seg_vars,
                   build_vars>>

\* the same under main, which then saves the records or warns that there are none
MainFinish ==
    /\ run_pc = "pages"
    /\ front = "main"
    /\ run_pc' = "done"
    /\ debug_files' = debug_files \o RunFiles(debug_mode)
    /\ returned' = <<all_voters>>
    /\ outcome' = MainAfterExtract(all_voters).outcome
    /\ exported' = MainAfterExtract(all_voters).exported
    /\ exit_status' = MainAfterExtract(all_voters).exit_status
    /\ UNCHANGED <<page_num, front, debug_mode, is_processing, metadata, all_voters,
                   run_pages, run_page_of, run_dropped, run_best, run_block_of,
                   run_meta0, button_vars, norm_vars, ocr_vars, meta_vars, seg_vars,
                   build_vars>>

\* extract_from_scanned_pdf is called again on the same extractor: a new loop with a
\* new all_voters, and self.metadata as the call before left it
CallAgain ==
    /\ run_pc = "done"
    /\ front = "call"
    /\ run_pc' = "pages"
    /\ page_num' = 0
    /\ run_meta0' = metadata
    /\ all_voters' = <<>>
    /\ run_pages' = <<>>
    /\ run_page_of' = <<>>
    /\ run_dropped' = <<>>
    /\ run_best' = <<>>
    /\ run_block_of' = <<>>
    /\ debug_files' = <<>>
    /\ outcome' = "none"
    /\ returned' = <<>>
    /\ UNCHANGED <<front, debug_mode, is_processing, button_vars, metadata, exported,
                   exit_status, norm_vars, ocr_vars, meta_vars, seg_vars, build_vars>>

\* a finally that resets the flag and leaves the buttons as they are
GuiFinally_KeepsButtons ==
    /\ is_processing' = FALSE
    /\ workers' = workers - 1
    /\ UNCHANGED <<convert_button, stop_button>>

\* the finally of process_file, as its thread ends
GuiFinally ==
    /\ is_processing' = FALSE
    /\ convert_button' = "normal"
    /\ stop_button' = "disabled"
    /\ workers' = workers - 1

\* start_conversion, on a click on the Start button (Tk gives no click of a disabled
\* button to its command): the flag and the buttons are set and a thread is started,
\* whose process_file makes a new extractor with the debug setting of the window
GuiStart ==
    /\ front = "gui"
    /\ convert_button = "normal"
    /\ is_processing' = TRUE
    /\ convert_button' = "disabled"
    /\ stop_button' = "normal"
    /\ workers' = workers + 1
    /\ debug_mode' \in BOOLEAN
    /\ run_pc' = "pages"
    /\ page_num' = 0
    /\ metadata' = <<>>
    /\ run_meta0' = <<>>
    /\ all_voters' = <<>>
    /\ run_pages' = <<>>
    /\ run_page_of' = <<>>
    /\ run_dropped' = <<>>
    /\ run_best' = <<>>
    /\ run_block_of' = <<>>
    /\ debug_files' = <<>>
    /\ outcome' = "none"
    /\ returned' = <<>>
    /\ exported' = <<>>
    /\ UNCHANGED <<front, exit_status, norm_vars, ocr_vars, meta_vars, seg_vars, build_vars>>

\* stop_conversion, on a click on the Stop button, on the UI thread
GuiStop ==
    /\ front = "gui"
    /\ stop_button = "normal"
    /\ is_processing' = FALSE
    /\ UNCHANGED <<page_num, run_pc, front, debug_mode, button_vars, metadata, run_meta0,
                   all_voters, run_pages, run_page_of, run_dropped, run_best, run_block_of,
                   debug_files, outcome, returned, exported, exit_status, norm_vars,
                   ocr_vars, meta_vars, seg_vars, build_vars>>

\* process_file finds is_processing cleared before a page: return (and the finally)
GuiStopped ==
    /\ run_pc = "pages"
    /\ front = "gui"
    /\ ~is_processing
    /\ run_pc' = "done"
    /\ outcome' = "stopped"
    /\ GuiFinally
    /\ UNCHANGED <<page_num, front, debug_mode, metadata, run_meta0, all_voters, run_pages,
                   run_page_of, run_dropped, run_best, run_block_of, debug_files, returned,
                   exported, exit_status, norm_vars, ocr_vars, meta_vars, seg_vars,
                   build_vars>>

\* process_file has no more pages: with no image at all it logs the failure and
\* returns; after the loop it returns if is_processing is cleared, and goes on to save
\* otherwise
GuiFinish ==
    /\ run_pc = "pages"
    /\ front = "gui"
    /\ IF page_num > 0 /\ is_processing
       THEN /\ run_pc' = "save"
            /\ UNCHANGED <<is_processing, button_vars, outcome>>
       ELSE /\ run_pc' = "done"
            /\ outcome' = IF page_num = 0 THEN "no_images" ELSE "stopped"
            /\ GuiFinally
    /\ UNCHANGED <<page_num, front, debug_mode, metadata, run_meta0, all_voters, run_pages,
                   run_page_of, run_dropped, run_best, run_block_of, debug_files, returned,
                   exported, exit_status, norm_vars, ocr_vars, meta_vars, seg_vars,
                   build_vars>>

\* process_file past the stop test: the warning when there is no record, else
\* save_to_excel and the report of success; then the finally
GuiSave ==
    /\ run_pc = "save"
    /\ front = "gui"
    /\ run_pc' = "done"
    /\ outcome' = GuiSaveResults(all_voters).outcome
    /\ exported' = GuiSaveResults(all_voters).exported
    /\ GuiFinally
    /\ UNCHANGED <<page_num, front, debug_mode, metadata, run_meta0, all_voters, run_pages,
                   run_page_of, run_dropped, run_best, run_block_of, debug_files, returned,
                   exit_status, norm_vars, ocr_vars, meta_vars, seg_vars, build_vars>>

\* save_to_excel is called with the records and raises (the file cannot be written):
\* except Exception reports the error; then the finally
GuiSaveFails ==
    /\ run_pc = "save"
    /\ front = "gui"
    /\ Len(all_voters) > 0
    /\ run_pc' = "done"
    /\ outcome' = "error"
    /\ exported' = <<all_voters>>
    /\ GuiFinally
    /\ UNCHANGED <<page_num, front, debug_mode, metadata, run_meta0, all_voters, run_pages,
                   run_page_of, run_dropped, run_best, run_block_of, debug_files, returned,
                   exit_status, norm_vars, ocr_vars, meta_vars, seg_vars, build_vars>>

Next ==
    \/ \E best_text \in PageTexts : SkipPage(best_text)
    \/ \E best_text \in PageTexts : ProcessPage(best_text)
    \/ \E best_text \in PageTexts : GuiProcessPage(best_text)
    \/ PageRaises
    \/ GuiPageRaises
    \/ Finish
    \/ MainFinish
    \/ GuiStop
    \/ GuiStopped
    \/ GuiFinish
    \/ GuiSave
    \/ GuiSaveFails

Spec == Init /\ [][Next]_vars

(***************************************************************************)
(* An extractor on which extract_from_scanned_pdf is called several times. *)
(***************************************************************************)
ReuseInit == Init /\ front = "call"

ReuseNext ==
    \/ \E best_text \in PageTexts : SkipPage(best_text)
    \/ \E best_text \in PageTexts : ProcessPage(best_text)
    \/ PageRaises
    \/ Finish
    \/ CallAgain

SpecReuse == ReuseInit /\ [][ReuseNext]_vars

(***************************************************************************)
(* The GUI through several conversions: the UI thread (Start, Stop) and    *)
(* the worker thread.  The worker's steps are weakly fair: every call it   *)
(* makes returns, so its thread goes on until process_file ends.           *)
(***************************************************************************)
GuiInit == Init /\ front = "gui"

GuiWorker ==
    \/ \E best_text \in PageTexts : SkipPage(best_text)
    \/ \E best_text \in PageTexts : GuiProcessPage(best_text)
    \/ GuiPageRaises
    \/ GuiStopped
    \/ GuiFinish
    \/ GuiSave
    \/ GuiSaveFails

GuiNext == GuiStart \/ GuiStop \/ GuiWorker

SpecGui == GuiInit /\ [][GuiNext]_vars /\ WF_vars(GuiWorker)

(***************************************************************************)
(* Properties.                                                             *)
(***************************************************************************)
\* C1: every record of all_voters has a non-empty name and an age from 18 to 120;
\* the record builder returned no record exactly for the blocks in which it found no
\* name or no valid age (age 0), and every block of every page is either a record or
\* dropped
C1_AcceptedRecords ==
    /\ \A i \in 1..Len(all_voters) :
          Len(all_voters[i].name) > 0 /\ all_voters[i].age \in 18..120
    /\ \A i \in 1..Len(run_dropped) :
          Len(BlockLocal[run_dropped[i]].name) = 0 \/ BlockLocal[run_dropped[i]].age = 0
    /\ Len(all_voters) + Len(run_dropped)
          = Sum([q \in 1..Len(run_pages) |-> Len(PageBlocks[run_pages[q]])])

\* C1 witness: a run that kept a record and dropped one block for its age and one
\* for its missing name
C1_Witness ==
    /\ Len(all_voters) > 0
    /\ \E i \in 1..Len(run_dropped) :
          Len(BlockLocal[run_dropped[i]].name) > 0 /\ BlockLocal[run_dropped[i]].age = 0
    /\ \E i \in 1..Len(run_dropped) :
          Len(BlockLocal[run_dropped[i]].name) = 0

\* C2: normalization is idempotent: cleaning a cleaned text changes nothing
C2_Idempotent == norm_pc = "twice" => norm_twice = norm_once

\* C3: when at least one profile succeeded, the selector returns the text of the
\* successful attempt with the highest score, and of the earliest such attempt when
\* scores are equal
C3_HighestScoreWins ==
    (ocr_pc = "done" /\ \E k \in 1..Len(ocr_log) : ocr_log[k].ok) =>
        \E k \in 1..Len(ocr_log) :
            /\ ocr_log[k].ok
            /\ \A j \in 1..Len(ocr_log) :
                  ocr_log[j].ok => ~ScoreGreater(ocr_log[j].score, ocr_log[k].score)
            /\ \A j \in 1..(k - 1) :
                  ocr_log[j].ok => ScoreGreater(ocr_log[k].score, ocr_log[j].score)
            /\ ocr_result = ocr_log[k].text

\* C4: a failed attempt leaves the best text and score as they were and the loop
\* running; when the selector returns, every profile of the list has been tried once,
\* in order; and when every attempt failed it returns the empty string
C4_FailureTolerated ==
    /\ [](ocr_pc = "done" =>
            /\ Len(ocr_log) = Len(ocr_configs)
            /\ \A k \in 1..Len(ocr_log) : ocr_log[k].config = ocr_configs[k]
            /\ (\A k \in 1..Len(ocr_log) : ~ocr_log[k].ok) => ocr_result = <<>>)
    /\ [][(Len(ocr_log') = Len(ocr_log) + 1 /\ ~ocr_log'[Len(ocr_log')].ok) =>
            (ocr_best' = ocr_best /\ ocr_pc' = "loop" /\ ocr_i' = ocr_i + 1)]_vars

\* C4 witness: the selector returned a text although its first and last attempts failed
C4_Witness ==
    /\ ocr_pc = "done"
    /\ ~ocr_log[1].ok
    /\ ~ocr_log[Len(ocr_configs)].ok
    /\ ocr_result # <<>>

\* C5: when an identifier shape matches in the text given to the segmenter, every
\* block it returns was made by the identifier strategy
C5_IdentifierPriority ==
    (seg_pc = "done" /\ \E k \in 1..Len(id_patterns) : re_search(id_patterns[k], seg_text, {}).ok)
        => \A i \in 1..Len(seg_from) : seg_from[i] = "id"

\* C6: the strategies run in the order identifier, name label, serial number; a
\* strategy runs only when every strategy before it made no block; all blocks come
\* from one strategy; and once there is a block, the blocks never change again
C6_OneStrategy ==
    /\ [](/\ \A i \in 1..Len(seg_ran) :
               /\ seg_ran[i].strategy = <<"id", "name", "serial">>[i]
               /\ \A j \in 1..(i - 1) : seg_ran[j].made = 0
          /\ \A i, j \in 1..Len(seg_from) : seg_from[i] = seg_from[j]
          /\ Len(seg_from) = Len(seg_blocks))
    /\ [][Len(seg_blocks) > 0 => seg_blocks' = seg_blocks /\ seg_ran' = seg_ran]_vars

\* C6 witness: the identifier strategy made nothing, the name-label strategy made a
\* block, and the segmenter returned without running the serial-number strategy
C6_Witness ==
    /\ seg_pc = "done"
    /\ Len(seg_ran) = 2
    /\ seg_ran[2].made > 0
    /\ seg_from[1] = "name"

\* C7: in the mapping the extractor returns, the fields of each cascade hold what the
\* earliest matching pattern of the cascade captured in the normalized text, and
\* the fields of a cascade without a matching pattern are absent
C7_FirstPatternWins ==
    LET t == clean_ocr_text_advanced(meta_text)
        Hit(ps, k, fl) == re_search(ps[k], t, fl)
        Earliest(ps, fl) ==
            {k \in 1..Len(ps) : Hit(ps, k, fl).ok /\ \A j \in 1..(k - 1) : ~Hit(ps, j, fl).ok}
        FieldOk(ps, fl, key, n) ==
            IF Earliest(ps, fl) = {} THEN key \notin DOMAIN meta_result
            ELSE \A k \in Earliest(ps, fl) :
                    /\ key \in DOMAIN meta_result
                    /\ meta_result[key] = strip(group(t, Hit(ps, k, fl), n))
    IN  meta_pc = "done" =>
          /\ FieldOk(constituency_patterns, {"I", "S"}, "vidhan_sabha_constituency_no", 1)
          /\ FieldOk(constituency_patterns, {"I", "S"}, "vidhan_sabha_name", 2)
          /\ FieldOk(part_patterns, {"I"}, "part_no", 1)
          /\ FieldOk(parliament_patterns, {"I", "S"}, "lok_sabha_constituency_no", 1)
          /\ FieldOk(parliament_patterns, {"I", "S"}, "lok_sabha_name", 2)
          /\ \A k \in 1..Len(location_patterns) :
                FieldOk(<<location_patterns[k][2]>>, {"I"}, location_patterns[k][1], 1)

\* C7 witness: the part number is the one after "Part No", a number at the end of the
\* text that the last pattern of the cascade matches is not taken, and no district
\* is in the mapping
C7_Witness ==
    /\ meta_pc = "done"
    /\ "part_no" \in DOMAIN meta_result
    /\ meta_result["part_no"] = S("7")
    /\ re_search(part_patterns[4], clean_ocr_text_advanced(meta_text), {"I"}).ok
    /\ "district" \notin DOMAIN meta_result

\* C8: the step of a page after the third leaves self.metadata as it is
C8_MetadataPrefix == [][page_num' > 3 => metadata' = metadata]_vars

\* C8 witness: a fourth page whose text holds a part number that self.metadata does
\* not have
C8_Witness ==
    /\ page_num >= 4
    /\ "part_no" \in DOMAIN PageMetadata[run_pages[4]]
    /\ Get(metadata, "part_no", <<>>) # PageMetadata[run_pages[4]]["part_no"]

\* C9: when a page with text among the first three is handled, every key of the page's
\* metadata takes the page's value, every other key keeps its value, and the keys
\* after the step are those before it and those of the page; no step removes a key
C9_UpdateSemantics ==
    [][/\ DOMAIN metadata \subseteq DOMAIN metadata'
       /\ (page_num' = page_num + 1 /\ page_num' <= 3
              /\ ~PageBlank[run_pages'[page_num']]) =>
            /\ \A key \in DOMAIN PageMetadata[run_pages'[page_num']] :
                  /\ key \in DOMAIN metadata'
                  /\ metadata'[key] = PageMetadata[run_pages'[page_num']][key]
            /\ \A key \in DOMAIN metadata \ DOMAIN PageMetadata[run_pages'[page_num']] :
                  metadata'[key] = metadata[key]
            /\ DOMAIN metadata'
                  = DOMAIN metadata \cup DOMAIN PageMetadata[run_pages'[page_num']]]_vars

\* C9 witness: the part number of the first page was overwritten by the second page's
\* and the district of the first page was kept
C9_Witness ==
    /\ page_num = 2
    /\ Get(PageMetadata[run_pages[1]], "part_no", <<>>) = S("7")
    /\ Get(metadata, "part_no", <<>>) = S("9")
    /\ Get(metadata, "district", <<>>) = S("PUNE")

\* C10: the fields a record takes from the metadata are those of the merges, in page
\* order, of the pages with text up to the record's page or the third page,
\* whichever comes first
C10_MetadataBeforeRecords ==
    LET RECURSIVE Merged(_)
        Merged(n) ==
            IF n = 0 THEN <<>>
            ELSE IF PageBlank[run_pages[n]] THEN Merged(n - 1)
            ELSE PageMetadata[run_pages[n]] @@ Merged(n - 1)
        TakenFrom(voter, seen) ==
            /\ voter.lok_sabha_constituency_no = Get(seen, "lok_sabha_constituency_no", <<>>)
            /\ voter.vidhan_sabha_constituency_no
                  = Get(seen, "vidhan_sabha_constituency_no", <<>>)
            /\ voter.vidhan_sabha_name = Get(seen, "vidhan_sabha_name", <<>>)
            /\ voter.part_no = Get(seen, "part_no", <<>>)
            /\ voter.district = Get(seen, "district", <<>>)
            /\ voter.division = Get(seen, "subdivision", <<>>)
            /\ voter.tehsil_block_name = Get(seen, "tehsil", Get(seen, "subdivision", <<>>))
            /\ voter.region = PageRegion[Get(seen, "district", <<>>)]
    IN  /\ Len(run_page_of) = Len(all_voters)
        /\ \A i \in 1..Len(all_voters) :
              TakenFrom(all_voters[i], Merged(IF run_page_of[i] <= 3 THEN run_page_of[i] ELSE 3))

\* C10 witness: a record built on the fourth page carries the district and the
\* region found on an earlier page and the part number of a later merge
C10_Witness ==
    \E i \in 1..Len(all_voters) :
        /\ run_page_of[i] = 4
        /\ all_voters[i].district = S("PUNE")
        /\ all_voters[i].region = S("Maharashtra")
        /\ all_voters[i].part_no = S("9")

\* C11: a record that is in all_voters keeps every field in every later step of the
\* run, also when a later page overwrites a metadata key the record copied
C11_RecordsFrozen ==
    [][\A i \in 1..Len(all_voters) :
          i <= Len(all_voters') => all_voters'[i] = all_voters[i]]_vars

\* C11 witness: a record holds the part number 5 it copied on its page, and
\* self.metadata holds the 9 a later page put there
C11_Witness ==
    /\ Get(metadata, "part_no", <<>>) = S("9")
    /\ \E i \in 1..Len(all_voters) :
          all_voters[i].part_no = S("5") /\ run_page_of[i] < page_num

\* C12: all_voters only grows at its end; its records are in the order of their pages
\* and, within a page, in the order of the blocks the segmenter returned, each record
\* holding what the cascades find in its block
C12_AppendOnlyOrdered ==
    /\ [][/\ Len(all_voters') >= Len(all_voters)
          /\ SubSeq(all_voters', 1, Len(all_voters)) = all_voters]_vars
    /\ [](/\ Len(run_page_of) = Len(all_voters)
          /\ Len(run_block_of) = Len(all_voters)
          /\ \A i, j \in 1..Len(all_voters) :
                i < j =>
                  \/ run_page_of[i] < run_page_of[j]
                  \/ run_page_of[i] = run_page_of[j] /\ run_block_of[i] < run_block_of[j]
          /\ \A i \in 1..Len(all_voters) :
                /\ run_page_of[i] \in 1..page_num
                /\ run_block_of[i] \in 1..Len(PageBlocks[run_pages[run_page_of[i]]])
                /\ \A field \in {"epic", "name", "father_husband_name", "age", "gender",
                                 "house_no"} :
                      all_voters[i][field]
                        = BlockLocal[PageBlocks[run_pages[run_page_of[i]]][run_block_of[i]]][field])

\* C12 witness: two records of the first and second block of one page, in that order,
\* after a record of an earlier page and before a record of a later page
C12_Witness ==
    \E i \in 1..(Len(all_voters) - 3) :
        /\ run_page_of[i] < run_page_of[i + 1]
        /\ run_page_of[i + 1] = run_page_of[i + 2]
        /\ run_block_of[i + 1] = 1
        /\ run_block_of[i + 2] = 2
        /\ all_voters[i + 1].name = S("Jane Roe")
        /\ all_voters[i + 2].name = S("Tom Poe")
        /\ run_page_of[i + 2] < run_page_of[i + 3]

\* C13: a run that ended before its last page, because Stop was requested or because a
\* page raised, and that had built records, has returned them to its caller or given
\* them to save_to_excel
C13_PartialRunKeepsRecords ==
    (run_pc = "done" /\ outcome \in {"stopped", "raised", "error"} /\ Len(all_voters) > 0)
        => (returned = <<all_voters>> \/ exported = <<all_voters>>)

\* C14: a run of main or of process_file that handled all its pages (no page raised
\* in main, no Stop in the GUI) and built no record ends with a message and nothing
\* else: save_to_excel was not called, no exception ended it, the exit status is 0
C14_ZeroRecordsWarning ==
    (/\ run_pc = "done"
     /\ Len(all_voters) = 0
     /\ \/ front = "main" /\ (page_num = 0 \/ run_best[page_num] # NoText)
        \/ front = "gui" /\ outcome # "stopped")
        => /\ outcome \in {"warning", "no_images"}
           /\ exported = <<>>
           /\ exit_status = 0

\* C14 witness: main ended with the warning after pages whose blocks were all dropped
C14_Witness ==
    /\ run_pc = "done"
    /\ front = "main"
    /\ Len(all_voters) = 0
    /\ Len(run_dropped) > 1
    /\ outcome = "warning"
    /\ returned = <<all_voters>>

\* C15: the age of a record is the number the first pattern of age_patterns, in
\* order, finds in the cleaned block with a value from 18 to 120 (each pattern is
\* tried on its leftmost match); when no pattern finds such a number, and so also when
\* the only numbers the patterns find are out of range, the block gives no record
C15_AgeCascade ==
    build_pc = "done" =>
        LET ValueOf(m) == IF m.ok THEN StrToNat(group(build_clean, m, 1)) ELSE 0
            values == [k \in 1..Len(age_patterns) |->
                          ValueOf(re_search(age_patterns[k], build_clean, {"I"}))]
            First == {k \in 1..Len(age_patterns) :
                        values[k] \in 18..120 /\ \A j \in 1..(k - 1) : values[j] \notin 18..120}
        IN  /\ First = {} => build_local.age = 0 /\ build_result = <<>>
            /\ \A k \in First :
                  /\ build_local.age = values[k]
                  /\ build_result # <<>> => build_result[1].age = values[k]
                  /\ Len(build_local.name) > 0 => build_result # <<>>

\* C15 witness: the labelled age 150 was passed over and the record has the age 34 of
\* the third pattern
C15_Witness ==
    /\ build_pc = "done"
    /\ build_result # <<>>
    /\ build_result[1].age = 34
    /\ re_search(age_patterns[1], build_clean, {"I"}).ok
    /\ group(build_clean, re_search(age_patterns[1], build_clean, {"I"}), 1) = S("150")

\* C16: the gender of a record is the code of the token the first matching gender
\* pattern captured: M for Male or M, F for Female or F, T for any other token
C16_GenderCodes ==
    (build_pc = "done" /\ build_result # <<>>) =>
        LET m == FirstMatch(gender_patterns, 1, build_clean, {"I"})
            token == lower(group(build_clean, m, 1))
        IN  m.ok =>
              build_result[1].gender
                = (IF token \in {S("male"), S("m")} THEN S("M")
                   ELSE IF token \in {S("female"), S("f")} THEN S("F")
                   ELSE S("T"))

\* C17: the age bracket of a record follows from its age: 18-29 for 18 to 29, 30-45
\* for 30 to 45, the top bracket from 46 on; never 'Under 18', never empty
C17_AgeBrackets ==
    (build_pc = "done" /\ build_result # <<>>) =>
        /\ build_result[1].age \in 18..29 => build_result[1].age_group = S("18-29")
        /\ build_result[1].age \in 30..45 => build_result[1].age_group = S("30-45")
        /\ build_result[1].age >= 46 => build_result[1].age_group = S("45+")
        /\ build_result[1].age_group \notin {S("Under 18"), <<>>}

\* C17 witness: a record of age 29, the last age of its bracket
C17_Witness ==
    /\ build_pc = "done"
    /\ build_result # <<>>
    /\ build_result[1].age = 29
    /\ build_result[1].age_group = S("18-29")

\* C18: the serial number of a record is never empty: it is the integer the block
\* given to the builder starts with, when white space follows that integer, and the
\* decimal text of record_index otherwise
C18_SequenceNumber ==
    (build_pc = "done" /\ build_result # <<>>) =>
        /\ build_result[1].serial_no # <<>>
        /\ build_result[1].serial_no
             = (IF re_search(ReLeadingSerial, build_text, {}).ok
                THEN group(build_text, re_search(ReLeadingSerial, build_text, {}), 1)
                ELSE NatToStr(build_index))

\* C19: in a run of extract_from_scanned_pdf in which no block was dropped so far, a
\* record whose block has no serial number of its own has its position in all_voters,
\* counted from 1, as serial number
C19_FallbackByPosition ==
    (front \in {"call", "main"} /\ run_dropped = <<>>) =>
        \A i \in 1..Len(all_voters) :
            Len(BlockLocal[PageBlocks[run_pages[run_page_of[i]]][run_block_of[i]]].serial) = 0
                => all_voters[i].serial_no = NatToStr(i)

RECURSIVE RunWithoutDebug(_, _, _, _)
\* self.metadata and all_voters after the first n pages of a run that started with
\* self.metadata = start and whose selector returned texts, with nothing written to
\* output_dir
RunWithoutDebug(entry, start, texts, n) ==
    IF n = 0 THEN [metadata |-> start, all_voters |-> <<>>]
    ELSE LET before == RunWithoutDebug(entry, start, texts, n - 1)
         IN  IF PageBlank[texts[n]] THEN before
             ELSE IF entry = "gui"
                  THEN GuiPageBody(n, before.metadata, before.all_voters, texts[n])
                  ELSE PageBody(n, before.metadata, before.all_voters, texts[n])

NumbersIn(text) ==
    {StrToNat(SubSeq(text, i, j)) :
        <<i, j>> \in {r \in (1..Len(text)) \X (1..Len(text)) :
                        /\ r[1] <= r[2]
                        /\ \A k \in r[1]..r[2] : text[k] \in DigitSet
                        /\ r[1] = 1 \/ text[r[1] - 1] \notin DigitSet
                        /\ r[2] = Len(text) \/ text[r[2] + 1] \notin DigitSet}}

\* C30: the age of a record is the whole value of a number written in the cleaned
\* block, never the value of some of the digits of a longer number
C30_AgeIsWholeNumber ==
    (build_pc = "done" /\ build_result # <<>>) =>
        build_result[1].age \in NumbersIn(build_clean)

\* C22: a cleaned text has no white space at its start or its end and no two white
\* space characters in a row, and the empty text is cleaned to the empty text
C22_CleanSpacing ==
    norm_pc # "start" =>
        /\ Len(norm_once) > 0 =>
              norm_once[1] \notin SpaceSet /\ norm_once[Len(norm_once)] \notin SpaceSet
        /\ \A i \in 1..(Len(norm_once) - 1) :
              ~(norm_once[i] \in SpaceSet /\ norm_once[i + 1] \in SpaceSet)
        /\ Len(norm_text) = 0 => norm_once = <<>>

\* C24: an attempt in which image_to_string returned text is scored with the mean of
\* the confidences of its tokens (the entries of conf other than the -1 of a box
\* without text) when image_to_data gave at least one, and with the length of its text
\* when image_to_data raised or gave none; and it is selected when that score is
\* greater than the score of every attempt before it
C24_ScoreOfAttempt ==
    (Len(ocr_log) > 0 /\ ocr_log[Len(ocr_log)].ok) =>
        LET attempt == ocr_log[Len(ocr_log)]
            tokens == SelectSeq(ocr_data.conf, LAMBDA c : c # -1)
            score == IF ocr_data.ok /\ Len(tokens) > 0
                     THEN <<Sum(tokens), Len(tokens)>>
                     ELSE <<Len(attempt.text), 1>>
        IN  /\ ~ScoreGreater(attempt.score, score)
            /\ ~ScoreGreater(score, attempt.score)
            /\ (ocr_pc = "loop"
                /\ \A j \in 1..(Len(ocr_log) - 1) :
                      ocr_log[j].ok => ScoreGreater(score, ocr_log[j].score))
                  => ocr_best.text = attempt.text

\* C23: the identifier strategy makes, for the i-th identifier match in position
\* order, the candidate that runs in the cleaned text from 50 characters before the
\* match (or from the start of the text) to the start of the next match, or for the
\* last match to 1000 characters after its start (or to the end of the text), trimmed;
\* it drops the candidates shorter than 20 characters and keeps the others, in order
C23_IdentifierBlocks ==
    Len(seg_ran) > 0 =>
        LET pos == SortPositions(FindAllIds(1, seg_clean))
            first(i) == IF pos[i].s - 50 > 1 THEN pos[i].s - 50 ELSE 1
            last(i) == IF i < Len(pos) THEN pos[i + 1].s - 1
                       ELSE IF pos[i].s - 1 + 1000 < Len(seg_clean) THEN pos[i].s - 1 + 1000
                       ELSE Len(seg_clean)
            candidates == [i \in 1..Len(pos) |-> strip(SubSeq(seg_clean, first(i), last(i)))]
            kept == SelectSeq(candidates, LAMBDA block : ~(Len(block) < 20))
        IN  IF Len(kept) = 0 THEN \A i \in 1..Len(seg_from) : seg_from[i] # "id"
            ELSE seg_blocks = kept

\* C29: every block the identifier strategy returns holds the identifier match it was
\* made for, and the strategy returns at most one block for each place of the cleaned
\* text where an identifier stands (matches of several shapes at the same or at
\* overlapping positions are one place)
C29_OneBlockPerIdentifier ==
    Len(seg_ran) > 0 =>
        LET pos == SortPositions(FindAllIds(1, seg_clean))
            places == {pos[i].s : i \in {j \in 1..Len(pos) :
                                            \A k \in 1..Len(pos) :
                                                ~(pos[k].s < pos[j].s /\ pos[j].s < pos[k].e)}}
            made == {i \in 1..Len(seg_from) : seg_from[i] = "id"}
        IN  /\ \A i \in 1..Len(pos) :
                  Len(IdBlock(seg_clean, pos, i)) > MinIdBlock
                      => Contains(IdBlock(seg_clean, pos, i), group0(seg_clean, pos[i]))
            /\ Cardinality(made) <= Cardinality(places)

\* C28: after the same page texts, with no page that raised, the records and the
\* metadata of a run of extract_from_scanned_pdf are those process_file builds from
\* these texts, and the other way round, serial numbers included
C28_SameRecordsBothFronts ==
    (\A i \in 1..Len(run_best) : run_best[i] # NoText) =>
        LET other == RunWithoutDebug(IF front = "gui" THEN "call" ELSE "gui", run_meta0,
                                     run_best, page_num)
        IN  /\ all_voters = other.all_voters
            /\ metadata = other.metadata

\* C25: a page for which the selector returns the empty string or white space changes
\* neither self.metadata nor all_voters, no block of it is segmented or built, and the
\* run stays in its loop, ready for the next page
C25_BlankPageSkipped ==
    [][(/\ page_num' = page_num + 1
        /\ PageBlank[run_best'[page_num']]
        /\ outcome' \notin {"raised", "error"})
           => /\ metadata' = metadata
              /\ all_voters' = all_voters
              /\ run_block_of' = run_block_of
              /\ run_dropped' = run_dropped
              /\ run_pages'[page_num'] = run_best'[page_num']
              /\ run_pc' = "pages"]_vars

\* C25 witness: a run that met a page with the empty string and a page of white space
\* after its first record went on and built a record from the page after them
C25_Witness ==
    /\ page_num = 4
    /\ run_best[2] = S("")
    /\ run_best[3] = S(" ")
    /\ Len(all_voters) = 2
    /\ run_page_of = <<1, 4>>
    /\ front = "call"

\* C21: self.metadata is empty whenever a run of the pipeline starts, so that the
\* metadata and the records of a run come from the pages of that run alone
C21_MetadataEmptyAtStart ==
    (run_pc = "pages" /\ page_num = 0) => metadata = <<>>

\* C26: once Stop was requested while the worker runs (is_processing cleared with the
\* worker's thread alive), no step gives a list to save_to_excel
C26_NoSaveAfterStop ==
    [][(front = "gui" /\ workers = 1 /\ ~is_processing) => exported' = exported]_vars

=============================================================================
